---- MODULE Spec2Model ----
(***************************************************************************)
(* Model of the command bridge of mcp-ui-bridge-python                     *)
(* (mcp_ui_bridge_python/mcp_server.py): the session lifecycle, the        *)
(* command parser, the action dispatcher and the screen snapshot           *)
(* assembler.  The browser driver (PlaywrightController), the extractor    *)
(* (DomParser) and the custom handlers are collaborators: every call into  *)
(* them returns one of a small set of results or raises.                   *)
(*                                                                         *)
(* A string is a sequence of one-character strings; a message built by an  *)
(* f-string is the sequence of its parts; None is written NoneVal for      *)
(* scalar fields and <<>> for an absent message.                           *)
(***************************************************************************)
EXTENDS Naturals, Sequences, FiniteSets, TLC

(***************************************************************************)
(* Characters and strings                                                  *)
(***************************************************************************)
NoneVal == "None"

\* Characters matched by \s (and removed by str.strip()) in the modelled alphabet.
WS == {" "}

QUOTE == "\""

UpperChars == <<"A","B","C","D","E","F","G","H","I","J","K","L","M",
                "N","O","P","Q","R","S","T","U","V","W","X","Y","Z">>

LowerChars == <<"a","b","c","d","e","f","g","h","i","j","k","l","m",
                "n","o","p","q","r","s","t","u","v","w","x","y","z">>

\* str.lower() on one character
LowerChar(c) ==
    IF \E i \in 1..Len(UpperChars) : UpperChars[i] = c
    THEN LowerChars[CHOOSE i \in 1..Len(UpperChars) : UpperChars[i] = c]
    ELSE c

\* str.lower()
Lower(s) == [i \in 1..Len(s) |-> LowerChar(s[i])]

\* Length of the longest prefix of s whose characters are all outside set X
RunOutside(s, X) ==
    CHOOSE n \in 0..Len(s) :
        /\ \A i \in 1..n : s[i] \notin X
        /\ (n = Len(s) \/ s[n + 1] \in X)

\* Length of the longest prefix of s whose characters are all inside set X
RunInside(s, X) ==
    CHOOSE n \in 0..Len(s) :
        /\ \A i \in 1..n : s[i] \in X
        /\ (n = Len(s) \/ s[n + 1] \notin X)

\* Length of the longest suffix of s whose characters are all inside set X
TailRunInside(s, X) ==
    CHOOSE n \in 0..Len(s) :
        /\ \A i \in (Len(s) - n + 1)..Len(s) : s[i] \in X
        /\ (n = Len(s) \/ s[Len(s) - n] \notin X)

Drop(s, n) == SubSeq(s, n + 1, Len(s))

Take(s, n) == SubSeq(s, 1, n)

\* str.strip(chars): remove every leading and trailing character that is in X
StripChars(s, X) ==
    LET l == RunInside(s, X)
        t == Drop(s, l)
    IN  Take(t, Len(t) - TailRunInside(t, X))

\* str.strip()
Strip(s) == StripChars(s, WS)

(***************************************************************************)
(* Command Parser                                                          *)
(***************************************************************************)
NoId == <<>>

ReMatch_HashOptional(cs) ==
    LET n1    == RunOutside(cs, WS)
        rest1 == Drop(cs, n1)
        w     == RunInside(rest1, WS)
        hashed == Len(rest1) >= w + 1 /\ rest1[w + 1] = "#"
        afterHash == Drop(rest1, IF hashed THEN w + 1 ELSE w)
        hasId == w >= 1 /\ afterHash # <<>> /\ Head(afterHash) \notin WS
        idLen == RunOutside(afterHash, WS)
    IN  IF n1 = 0
        THEN [matched |-> FALSE, g1 |-> <<>>, hasId |-> FALSE, g2 |-> NoId, g3 |-> <<>>]
        ELSE IF hasId
        THEN [matched |-> TRUE, g1 |-> Take(cs, n1), hasId |-> TRUE,
              g2 |-> Take(afterHash, idLen), g3 |-> Drop(afterHash, idLen)]
        ELSE [matched |-> TRUE, g1 |-> Take(cs, n1), hasId |-> FALSE,
              g2 |-> NoId, g3 |-> rest1]

ReMatch_EmptyName(cs) ==
    LET n1    == RunOutside(cs, WS)
        rest1 == Drop(cs, n1)
        w     == RunInside(rest1, WS)
        afterHash == Drop(rest1, w + 1)
        hasId == /\ w >= 1
                 /\ Len(rest1) >= w + 2
                 /\ rest1[w + 1] = "#"
                 /\ rest1[w + 2] \notin WS
        idLen == RunOutside(afterHash, WS)
    IN  IF hasId
        THEN [matched |-> TRUE, g1 |-> Take(cs, n1), hasId |-> TRUE,
              g2 |-> Take(afterHash, idLen), g3 |-> Drop(afterHash, idLen)]
        ELSE [matched |-> TRUE, g1 |-> Take(cs, n1), hasId |-> FALSE,
              g2 |-> NoId, g3 |-> rest1]

\* re.match(r"(\S+)(?:\s+#([^\s]+))?(.*)", command_string): the three groups,
\* or matched = FALSE.  Every quantifier is greedy and the tail (.*) accepts
\* anything, so no backtracking shortens a group.
ReMatch(cs) ==
    LET n1    == RunOutside(cs, WS)
        rest1 == Drop(cs, n1)
        w     == RunInside(rest1, WS)
        afterHash == Drop(rest1, w + 1)
        hasId == /\ w >= 1
                 /\ Len(rest1) >= w + 2
                 /\ rest1[w + 1] = "#"
                 /\ rest1[w + 2] \notin WS
        idLen == RunOutside(afterHash, WS)
    IN  IF n1 = 0
        THEN [matched |-> FALSE, g1 |-> <<>>, hasId |-> FALSE, g2 |-> NoId, g3 |-> <<>>]
        ELSE IF hasId
        THEN [matched |-> TRUE, g1 |-> Take(cs, n1), hasId |-> TRUE,
              g2 |-> Take(afterHash, idLen), g3 |-> Drop(afterHash, idLen)]
        ELSE [matched |-> TRUE, g1 |-> Take(cs, n1), hasId |-> FALSE,
              g2 |-> NoId, g3 |-> rest1]

\* One step of re.finditer(r'"[^"]+"|\S+', s) at the head of s: the length of
\* the token matched there, 0 when no alternative matches at this position.
TokenLen(s) ==
    LET k == RunOutside(Drop(s, 1), {QUOTE})
    IN  IF s = <<>> THEN 0
        ELSE IF Head(s) = QUOTE /\ k >= 1 /\ Len(s) >= k + 2 THEN k + 2
        ELSE RunOutside(s, WS)

RECURSIVE Tokenize(_)
\* [m.group(0).strip('"') for m in re.finditer(arg_regex, s)]
Tokenize(s) ==
    IF s = <<>> THEN <<>>
    ELSE LET n == TokenLen(s)
         IN  IF n = 0 THEN Tokenize(Tail(s))
             ELSE <<StripChars(Take(s, n), {QUOTE})>> \o Tokenize(Drop(s, n))

\* Lines 395-418: strip, match, lower-case the name, split the arguments.
ParseCommand(raw) ==
    LET cs == Strip(raw)
        m  == ReMatch(cs)
        remaining == Strip(m.g3)
    IN  [ok           |-> m.matched,
         command_name |-> Lower(m.g1),
         has_id       |-> m.hasId,
         element_id   |-> m.g2,
         command_args |-> IF remaining = <<>> THEN <<>> ELSE Tokenize(remaining)]

(***************************************************************************)
(* Result envelopes (ActionResult / ParserResult) and messages             *)
(***************************************************************************)
\* A literal part of an f-string
L(s) == [lit |-> s, chars |-> <<>>]

\* An interpolated string value (a command name, an element id)
V(cs) == [lit |-> "", chars |-> cs]

NoMessage == <<>>

NoData == [kind |-> "none"]

\* ActionResult(success, message, data, error_type); also ParserResult
ActionResult(success, message, data, error_type) ==
    [success |-> success, message |-> message, data |-> data, error_type |-> error_type]

\* json.dumps(result.model_dump(by_alias=True)): the envelope handed to the caller
Envelope(result) ==
    [kind |-> "envelope", success |-> result.success, message |-> result.message,
     data |-> result.data, error_type |-> result.error_type]

\* json.dumps({"success": False, "message": ..., "error_type": ...})
FailureEnvelope(message, error_type) ==
    [kind |-> "envelope", success |-> FALSE, message |-> message,
     data |-> NoData, error_type |-> error_type]

\* An exception that leaves the coroutine: the caller gets no envelope
Propagated(text) == [kind |-> "exception", text |-> text]

NoResponse == [kind |-> "none"]

(***************************************************************************)
(* Collaborator behaviour: what a call may return, or that it raises       *)
(***************************************************************************)
ExceptionTexts == {"boom"}

Returns(result) == [raised |-> FALSE, result |-> result, text |-> ""]

Raises(text) == [raised |-> TRUE, result |-> ActionResult(FALSE, NoMessage, NoData, NoneVal), text |-> text]

ElementData(id) == [kind |-> "element", id |-> id]

OtherData == [kind |-> "other"]

\* click / type_text / select_option / check_element / uncheck_element /
\* select_radio_button
DriverResults ==
    { ActionResult(TRUE, <<L("done")>>, NoData, NoneVal),
      ActionResult(FALSE, <<L("option not found")>>, NoData, "OptionNotFound") }

DriverOutcomes == {Returns(r) : r \in DriverResults} \cup {Raises(t) : t \in ExceptionTexts}

\* get_element_state(element_id)
StateResults(id) ==
    { ActionResult(TRUE, NoMessage, ElementData(id), NoneVal),
      ActionResult(TRUE, NoMessage, OtherData, NoneVal),
      ActionResult(TRUE, NoMessage, NoData, NoneVal),
      ActionResult(FALSE, <<L("timed out")>>, NoData, "Timeout"),
      ActionResult(FALSE, <<L("not found")>>, NoData, NoneVal) }

StateOutcomes(id) == {Returns(r) : r \in StateResults(id)} \cup {Raises(t) : t \in ExceptionTexts}

\* What a custom handler may return (get_custom_note_handler returns a success
\* with data, or a failure that carries only a message)
HandlerResults ==
    { ActionResult(TRUE, <<L("custom note")>>, [kind |-> "payload"], NoneVal),
      ActionResult(FALSE, <<L("No customNote found")>>, NoData, NoneVal) }

HandlerOutcomes == {Returns(r) : r \in HandlerResults} \cup {Raises(t) : t \in ExceptionTexts}

(***************************************************************************)
(* Action Dispatcher: the decisions of send_command_tool_execute           *)
(***************************************************************************)
S_click   == <<"c","l","i","c","k">>
S_type    == <<"t","y","p","e">>
S_select  == <<"s","e","l","e","c","t">>
S_check   == <<"c","h","e","c","k">>
S_uncheck == <<"u","n","c","h","e","c","k">>
S_choose  == <<"c","h","o","o","s","e">>

\* ["click", "type", "select", "check", "uncheck", "choose"]
CoreCommands == {S_click, S_type, S_select, S_check, S_uncheck, S_choose}

HasCustomHandler_CoreFallsThrough(map, command_name) ==
    /\ command_name \in DOMAIN map
    /\ (command_name \notin CoreCommands \/ map[command_name].override_core_behavior)

\* custom_action_handler_map.get(command_name): truthy when a handler is stored
\* under exactly this key
HasCustomHandler(map, command_name) == command_name \in DOMAIN map

Call(fn, id, arg) == [kind |-> "call", fn |-> fn, id |-> id, arg |-> arg,
                      result |-> ActionResult(FALSE, NoMessage, NoData, NoneVal)]

Reply(result) == [kind |-> "reply", fn |-> "", id |-> NoId, arg |-> <<>>, result |-> result]

CoreCommandLogic_NoIdCheck(p, map) ==
    LET name == p.command_name
        id   == p.element_id
        args == p.command_args
    IN  IF name = S_click THEN Call("click", id, <<>>)
        ELSE IF name = S_type /\ args # <<>> THEN Call("type_text", id, args[1])
        ELSE IF name = S_select /\ args # <<>> THEN Call("select_option", id, args[1])
        ELSE IF name = S_check THEN Call("check_element", id, <<>>)
        ELSE IF name = S_uncheck THEN Call("uncheck_element", id, <<>>)
        ELSE IF name = S_choose
             THEN Call("select_radio_button", id, IF args # <<>> THEN args[1] ELSE id)
        ELSE Reply(ActionResult(FALSE,
                 <<L("Command \""), V(name),
                   L("\" is not a recognized core command and no custom handler is registered for it.")>>,
                 NoData, "InvalidInput"))

CoreCommandLogic_NoArgCheck(p, map) ==
    LET name == p.command_name
        id   == p.element_id
        args == p.command_args
        first == IF args # <<>> THEN args[1] ELSE <<>>
    IN  IF ~p.has_id /\ name \in CoreCommands
        THEN Reply(ActionResult(FALSE,
                 <<L("Core command \""), V(name), L("\" requires an element ID.")>>,
                 NoData, "InvalidInput"))
        ELSE IF name = S_click /\ p.has_id THEN Call("click", id, <<>>)
        ELSE IF name = S_type /\ p.has_id THEN Call("type_text", id, first)
        ELSE IF name = S_select /\ p.has_id THEN Call("select_option", id, first)
        ELSE IF name = S_check /\ p.has_id THEN Call("check_element", id, <<>>)
        ELSE IF name = S_uncheck /\ p.has_id THEN Call("uncheck_element", id, <<>>)
        ELSE IF name = S_choose /\ p.has_id
             THEN Call("select_radio_button", id, IF args # <<>> THEN args[1] ELSE id)
        ELSE Reply(ActionResult(FALSE,
                 <<L("Command \""), V(name),
                   L("\" is not a recognized core command and no custom handler is registered for it.")>>,
                 NoData, "InvalidInput"))

CoreCommandLogic_UnknownClicks(p, map) ==
    LET name == p.command_name
        id   == p.element_id
        args == p.command_args
    IN  IF ~p.has_id /\ name \in CoreCommands
        THEN Reply(ActionResult(FALSE,
                 <<L("Core command \""), V(name), L("\" requires an element ID.")>>,
                 NoData, "InvalidInput"))
        ELSE IF name = S_type /\ p.has_id /\ args # <<>> THEN Call("type_text", id, args[1])
        ELSE IF name = S_select /\ p.has_id /\ args # <<>> THEN Call("select_option", id, args[1])
        ELSE IF name = S_check /\ p.has_id THEN Call("check_element", id, <<>>)
        ELSE IF name = S_uncheck /\ p.has_id THEN Call("uncheck_element", id, <<>>)
        ELSE IF name = S_choose /\ p.has_id
             THEN Call("select_radio_button", id, IF args # <<>> THEN args[1] ELSE id)
        ELSE IF p.has_id THEN Call("click", id, <<>>)
        ELSE Reply(ActionResult(FALSE,
                 <<L("Command \""), V(name),
                   L("\" is not a recognized core command and no custom handler is registered for it.")>>,
                 NoData, "InvalidInput"))

CoreCommandLogic_ChooseNeedsValue(p, map) ==
    LET name == p.command_name
        id   == p.element_id
        args == p.command_args
    IN  IF ~p.has_id /\ name \in CoreCommands
        THEN Reply(ActionResult(FALSE,
                 <<L("Core command \""), V(name), L("\" requires an element ID.")>>,
                 NoData, "InvalidInput"))
        ELSE IF name = S_click /\ p.has_id THEN Call("click", id, <<>>)
        ELSE IF name = S_type /\ p.has_id /\ args # <<>> THEN Call("type_text", id, args[1])
        ELSE IF name = S_select /\ p.has_id /\ args # <<>> THEN Call("select_option", id, args[1])
        ELSE IF name = S_check /\ p.has_id THEN Call("check_element", id, <<>>)
        ELSE IF name = S_uncheck /\ p.has_id THEN Call("uncheck_element", id, <<>>)
        ELSE IF name = S_choose /\ p.has_id /\ args # <<>>
             THEN Call("select_radio_button", id, args[1])
        ELSE Reply(ActionResult(FALSE,
                 <<L("Command \""), V(name),
                   L("\" is not a recognized core command and no custom handler is registered for it.")>>,
                 NoData, "InvalidInput"))

\* Lines 482-526, reached only when no custom handler was found: either the
\* driver call to make, or the ActionResult built without calling the driver.
CoreCommandLogic(p, map) ==
    LET name == p.command_name
        id   == p.element_id
        args == p.command_args
    IN  IF ~p.has_id /\ name \in CoreCommands
        THEN Reply(ActionResult(FALSE,
                 <<L("Core command \""), V(name), L("\" requires an element ID.")>>,
                 NoData, "InvalidInput"))
        ELSE IF name = S_click /\ p.has_id THEN Call("click", id, <<>>)
        ELSE IF name = S_type /\ p.has_id /\ args # <<>> THEN Call("type_text", id, args[1])
        ELSE IF name = S_select /\ p.has_id /\ args # <<>> THEN Call("select_option", id, args[1])
        ELSE IF name = S_check /\ p.has_id THEN Call("check_element", id, <<>>)
        ELSE IF name = S_uncheck /\ p.has_id THEN Call("uncheck_element", id, <<>>)
        ELSE IF name = S_choose /\ p.has_id
             THEN Call("select_radio_button", id, IF args # <<>> THEN args[1] ELSE id)
        ELSE IF ~HasCustomHandler(map, name)
             THEN Reply(ActionResult(FALSE,
                 <<L("Command \""), V(name),
                   L("\" is not a recognized core command and no custom handler is registered for it.")>>,
                 NoData, "InvalidInput"))
        ELSE Reply(ActionResult(FALSE,
                 <<L("Command \""), V(name),
                   L("\" was not executed. It may be a custom command with overrideCoreBehavior=false that doesn't match a core action.")>>,
                 NoData, "InvalidInput"))

(***************************************************************************)
(* Extractor results (ParserResult) and the Screen Snapshot Assembler       *)
(***************************************************************************)
\* The defaults of lines 202-204
EmptyStructured ==
    [kind |-> "structured", containers |-> <<>>, regions |-> <<>>,
     status_messages |-> <<>>, loading_indicators |-> <<>>]

SomeStructured ==
    [kind |-> "structured", containers |-> <<"todo-list">>, regions |-> <<"main">>,
     status_messages |-> <<>>, loading_indicators |-> <<>>]

\* get_structured_data()
StructuredResults ==
    { ActionResult(TRUE, <<L("parsed")>>, SomeStructured, NoneVal),
      ActionResult(TRUE, <<L("nothing found")>>, NoData, NoneVal),
      ActionResult(FALSE, <<L("parsing failed")>>, NoData, "ParsingFailed") }

StructuredOutcomes == {Returns(r) : r \in StructuredResults} \cup {Raises(t) : t \in ExceptionTexts}

T_button   == <<"b","u","t","t","o","n">>
T_a        == <<"a">>
T_select   == <<"s","e","l","e","c","t">>
T_textarea == <<"t","e","x","t","a","r","e","a">>
T_input_text     == <<"i","n","p","u","t","-","t","e","x","t">>
T_input_checkbox == <<"i","n","p","u","t","-","c","h","e","c","k","b","o","x">>
T_input_radio    == <<"i","n","p","u","t","-","r","a","d","i","o">>
T_input_file     == <<"i","n","p","u","t","-","f","i","l","e">>
T_input_button   == <<"i","n","p","u","t","-","b","u","t","t","o","n">>
T_input_submit   == <<"i","n","p","u","t","-","s","u","b","m","i","t">>
T_input_prefix   == <<"i","n","p","u","t","-">>

\* The list of lines 304-308
NonTextInputTypes ==
    { <<"i","n","p","u","t","-","b","u","t","t","o","n">>,
      <<"i","n","p","u","t","-","s","u","b","m","i","t">>,
      <<"i","n","p","u","t","-","c","h","e","c","k","b","o","x">>,
      <<"i","n","p","u","t","-","r","a","d","i","o">>,
      <<"i","n","p","u","t","-","f","i","l","e">>,
      <<"i","n","p","u","t","-","r","e","s","e","t">>,
      <<"i","n","p","u","t","-","i","m","a","g","e">>,
      <<"i","n","p","u","t","-","c","o","l","o","r">>,
      <<"i","n","p","u","t","-","r","a","n","g","e">>,
      <<"i","n","p","u","t","-","d","a","t","e">>,
      <<"i","n","p","u","t","-","m","o","n","t","h">>,
      <<"i","n","p","u","t","-","w","e","e","k">>,
      <<"i","n","p","u","t","-","t","i","m","e">>,
      <<"i","n","p","u","t","-","d","a","t","e","t","i","m","e","-","l","o","c","a","l">> }

\* str.startswith
StartsWith(s, prefix) == Len(s) >= Len(prefix) /\ Take(s, Len(prefix)) = prefix

\* An InteractiveElementInfo as model_dump(by_alias=True) shows it; radioGroup
\* is <<>> and options is <<>> when absent
Element(id, elementType, isChecked, radioGroup, options) ==
    [id |-> id, elementType |-> elementType, isChecked |-> isChecked,
     radioGroup |-> radioGroup, options |-> options]

Id_a == <<"a">>
Id_B == <<"B">>

\* The element lists the extractor may return
ElementLists ==
    { <<Element(Id_a, T_button, FALSE, <<>>, <<>>),
        Element(Id_B, T_input_checkbox, TRUE, <<>>, <<>>)>>,
      <<Element(Id_B, T_input_radio, FALSE, <<"g">>, <<>>),
        Element(Id_a, T_input_text, FALSE, <<>>, <<>>)>> }

\* get_interactive_elements_with_state(); data <<>> stands for None and for []
ElementsResults ==
    { ActionResult(TRUE, <<L("found")>>, els, NoneVal) : els \in ElementLists } \cup
    { ActionResult(TRUE, <<L("no elements")>>, <<>>, NoneVal),
      ActionResult(FALSE, <<L("page gone")>>, <<>>, "PageNotAvailable"),
      ActionResult(FALSE, <<L("failed")>>, <<>>, NoneVal) }

ElementsOutcomes == {Returns(r) : r \in ElementsResults} \cup {Raises(t) : t \in ExceptionTexts}

H_click   == <<"c","l","i","c","k"," ","#">>
H_type    == <<"t","y","p","e"," ","#">>
H_type_arg == <<" ","\"","<","t","e","x","t","_","t","o","_","t","y","p","e",">","\"">>
H_select  == <<"s","e","l","e","c","t"," ","#">>
H_select_arg == <<" ","\"","<","v","a","l","u","e","_","t","o","_","s","e","l","e","c","t",">","\"">>
H_check   == <<"c","h","e","c","k"," ","#">>
H_uncheck == <<"u","n","c","h","e","c","k"," ","#">>
H_choose  == <<"c","h","o","o","s","e"," ","#">>
H_in_group == <<" ","i","n","_","g","r","o","u","p"," ">>

Descriptor(el, hint) ==
    [id |-> el.id, elementType |-> el.elementType, commandHint |-> hint,
     isChecked |-> el.isChecked, radioGroup |-> el.radioGroup, options |-> el.options]

\* Lines 281-287: the condition of the click rule on elementType
EmitsClick(t) ==
    \/ t = T_button \/ t = T_input_button \/ t = T_input_submit \/ t = T_a
    \/ (t # <<>> /\ ~StartsWith(t, T_input_prefix))

EmitsType_AnyInput(t) == StartsWith(t, T_input_prefix) \/ t = T_textarea

\* Lines 302-310: the condition of the type rule on elementType
EmitsType(t) ==
    \/ (StartsWith(t, T_input_prefix) /\ t \notin NonTextInputTypes)
    \/ t = T_textarea

CheckboxHint_AlwaysCheck(el) == H_check \o el.id

\* Line 343: the commandHint of a checkbox
CheckboxHint(el) == IF el.isChecked THEN H_uncheck \o el.id ELSE H_check \o el.id

RadioHint_NoGroup(el) == H_choose \o el.id

\* Lines 353-355: the commandHint of a radio button
RadioHint(el) ==
    IF el.radioGroup # <<>>
    THEN H_choose \o el.id \o H_in_group \o el.radioGroup
    ELSE H_choose \o el.id

\* Lines 279-367: the descriptors generated for one element, in rule order
GeneratedActions(el) ==
    LET t == el.elementType
    IN  (IF EmitsClick(t) THEN <<Descriptor(el, H_click \o el.id)>> ELSE <<>>)
        \o
        (IF EmitsType(t) THEN <<Descriptor(el, H_type \o el.id \o H_type_arg)>> ELSE <<>>)
        \o
        (IF t = T_select /\ el.options # <<>>
         THEN <<Descriptor(el, H_select \o el.id \o H_select_arg)>> ELSE <<>>)
        \o
        (IF t = T_input_checkbox THEN <<Descriptor(el, CheckboxHint(el))>> ELSE <<>>)
        \o
        (IF t = T_input_radio THEN <<Descriptor(el, RadioHint(el))>> ELSE <<>>)

RECURSIVE ActionsOf_NewestFirst(_)
ActionsOf_NewestFirst(els) ==
    IF els = <<>> THEN <<>>
    ELSE ActionsOf_NewestFirst(Tail(els)) \o GeneratedActions(Head(els))

RECURSIVE ActionsOf(_)
\* Lines 274-368: actions.extend(generated_actions) for each element in order
ActionsOf(els) ==
    IF els = <<>> THEN <<>> ELSE GeneratedActions(Head(els)) \o ActionsOf(Tail(els))

\* json.dumps of lines 213-224
SnapshotResponse(sres, eres) ==
    [kind |-> "snapshot", success |-> TRUE, has_data |-> TRUE,
     structured_data |-> IF sres.success /\ sres.data # NoData THEN sres.data ELSE EmptyStructured,
     interactive_elements |-> IF eres.success /\ eres.data # <<>> THEN eres.data ELSE <<>>,
     parser_messages |-> [structured |-> sres.message, interactive |-> eres.message],
     message |-> NoMessage, error_type |-> NoneVal]

\* json.dumps of the failure objects of get_current_screen_data_execute
SnapshotFailure(message, error_type) ==
    [kind |-> "snapshot", success |-> FALSE, has_data |-> FALSE,
     structured_data |-> EmptyStructured, interactive_elements |-> <<>>,
     parser_messages |-> [structured |-> NoMessage, interactive |-> NoMessage],
     message |-> message, error_type |-> error_type]

\* json.dumps of the objects of get_current_screen_actions_execute
ActionsResponse(success, message, actions, error_type) ==
    [kind |-> "actions", success |-> success, message |-> message,
     actions |-> actions, error_type |-> error_type]

\* Lines 264-370: the reply built from the extractor's result
ActionsFromResult(eres) ==
    IF ~eres.success \/ eres.data = <<>>
    THEN ActionsResponse(FALSE, <<L("Failed to get interactive elements: ")>> \o eres.message,
                         <<>>, IF eres.error_type # NoneVal THEN eres.error_type ELSE "ActionFailed")
    ELSE ActionsResponse(TRUE, NoMessage, ActionsOf(eres.data), NoneVal)

(***************************************************************************)
(* State                                                                   *)
(***************************************************************************)
VARIABLES
    lifecycle,                 \* where the session is (Section 4.5 of the design)
    playwright_controller,     \* module global: TRUE when set (not None)
    dom_parser,                \* module global: TRUE when set
    automation_interface,      \* module global: TRUE when set
    custom_action_handler_map, \* module global: command name -> handler
    page,                      \* the driver's page: "none", "open" or "closed"
    close_calls,               \* how many times the driver's close() was invoked
    options,                   \* the McpServerOptions run_mcp_server was given
    cli,                       \* the start command of the CLI (main.py)
    init_result,               \* what initialize_browser_and_dependencies returned
    server,                    \* where run_mcp_server stands with the protocol server
    shutdown,                  \* a graceful_shutdown call made from outside run_mcp_server
    shutdown_requests,         \* how many such calls were made
    req                        \* the requests being served, one per slot

vars == <<lifecycle, playwright_controller, dom_parser, automation_interface,
          custom_action_handler_map, page, close_calls, options, cli, init_result,
          server, shutdown, shutdown_requests, req>>

\* How many requests may be in progress at once
NumReq == 1

Slots == 1..NumReq

S_note == <<"n","o","t","e">>

\* The same command name as the application may spell it in its CustomActionHandler
S_Note == <<"N","o","t","e">>

\* A registry holding a handler under each of the names, all with the same
\* override_core_behavior flag
Registry(names, override) ==
    [n \in names |-> [command_name |-> n, override_core_behavior |-> override]]

\* The registries the embedding application may have stored in the module's map
Registries ==
    { Registry({}, FALSE), Registry({S_click, S_note}, FALSE), Registry({S_type}, TRUE),
      Registry({S_Note}, FALSE) }

\* McpServerOptions, as far as run_mcp_server's callers vary it: the list
\* custom_action_handlers
McpServerOptions(handlers) == [custom_action_handlers |-> handlers]

\* The options the application may start the server with
StartupOptions ==
    { McpServerOptions(Registry({}, FALSE)), McpServerOptions(Registry({S_note}, FALSE)) }

Cmd_click_a == <<"c","l","i","c","k"," ","#","a">>
Cmd_click == <<"c","l","i","c","k">>
Cmd_CLICK_B == <<"C","L","I","C","K"," ","#","B">>
Cmd_type_a == <<"t","y","p","e"," ","#","a">>
Cmd_type_a_text == <<"t","y","p","e"," ","#","a"," ","\"","h"," ","w","\"">>
Cmd_type_x == <<"t","y","p","e"," ","x">>
Cmd_select_a == <<"s","e","l","e","c","t"," ","#","a">>
Cmd_select_a_fr == <<"s","e","l","e","c","t"," ","#","a"," ","f","r">>
Cmd_check_a == <<"c","h","e","c","k"," ","#","a">>
Cmd_uncheck_B == <<"u","n","c","h","e","c","k"," ","#","B">>
Cmd_choose_a == <<"c","h","o","o","s","e"," ","#","a">>
Cmd_choose_a_v == <<"c","h","o","o","s","e"," ","#","a"," ","v">>
Cmd_note_a == <<"n","o","t","e"," ","#","a">>
Cmd_note == <<"n","o","t","e"," ","x">>
Cmd_zap_a == <<"z","a","p"," ","#","a">>
Cmd_navigate == <<"n","a","v","i","g","a","t","e">>
Cmd_blank == <<" "," ">>

\* The command strings a client may send
CommandStrings ==
    { Cmd_click_a, Cmd_click, Cmd_CLICK_B, Cmd_type_a,
      Cmd_type_a_text, Cmd_type_x, Cmd_select_a, Cmd_select_a_fr,
      Cmd_check_a, Cmd_uncheck_B, Cmd_choose_a, Cmd_choose_a_v,
      Cmd_note_a, Cmd_note, Cmd_zap_a, Cmd_navigate,
      Cmd_blank }

NoResult == ActionResult(FALSE, NoMessage, NoData, NoneVal)

NoOutcome == [raised |-> FALSE, result |-> NoResult, text |-> "none"]

\* The locals command_name, element_id and command_args before line 395 ran
NoParse ==
    [ok |-> FALSE, command_name |-> <<>>, has_id |-> FALSE, element_id |-> NoId,
     command_args |-> <<>>]

\* A slot with no request in it.  op, pc: the operation and where its coroutine
\* stands; cmd, parsed: the command string and the locals parsed from it;
\* arrived: the lifecycle state it arrived in; calls: the calls it made
\* into the driver and the extractor; invoked: the parameters of each custom
\* handler invocation; kept: the first awaited result the coroutine holds
\* (state_result, structured_data_result); last: what the latest awaited
\* collaborator call did; moved: a driver action acted on the page after the
\* first of the request's two extractor reads and before the second; resp:
\* what the caller received.
Idle ==
    [op |-> "idle", pc |-> "idle", cmd |-> <<>>, parsed |-> NoParse, arrived |-> "",
     calls |-> <<>>, invoked |-> <<>>, kept |-> NoResult, last |-> NoOutcome,
     moved |-> FALSE, resp |-> NoResponse]

\* A call into the driver or the extractor, as the collaborator sees it
CallRec(fn, id, arg) == [fn |-> fn, id |-> id, arg |-> arg]

\* CustomActionHandlerParams(element, command_args, automation)
HandlerParams(element, command_args) == [element |-> element, command_args |-> command_args]

\* A value an option source may hold: absent, or a text
Absent == [given |-> FALSE, text |-> <<>>]

Given(text) == [given |-> TRUE, text |-> text]

\* The start command before it is invoked, and in every session that the
\* embedding application starts without the CLI
CliIdle ==
    [pc |-> "idle", cli_val |-> Absent, file_val |-> Absent, env_val |-> Absent,
     server_version |-> Absent]

\* The state when run_mcp_server is entered, with the given request slots
InitWith(slots) ==
    /\ lifecycle = "Uninitialized"
    /\ playwright_controller = FALSE
    /\ dom_parser = FALSE
    /\ automation_interface = FALSE
    /\ custom_action_handler_map \in Registries
    /\ options \in StartupOptions
    /\ (DOMAIN options.custom_action_handlers # {}) => (DOMAIN custom_action_handler_map = {})
    /\ page = "none"
    /\ cli = CliIdle
    /\ close_calls = 0
    /\ init_result = "pending"
    /\ server = "not_started"
    /\ shutdown = "idle"
    /\ shutdown_requests = 0
    /\ req = [r \in slots |-> Idle]

Init == InitWith(Slots)

(***************************************************************************)
(* Session lifecycle: initialize_browser_and_dependencies                  *)
(***************************************************************************)
\* PlaywrightController.close(): what get_page() gives afterwards.  Line 627
\* allows for both an absent page and a page that reports is_closed().
DriverCloseLeaves(pg) == IF pg = "open" THEN {"none", "closed"} ELSE {pg}

\* "if playwright_controller: await playwright_controller.close()" followed by
\* "return None, None, None"
FailWithClose_NoClose(pg) ==
    /\ lifecycle' = "Failed"
    /\ init_result' = "nones"
    /\ close_calls' = close_calls
    /\ page' = pg

FailWithClose(pg) ==
    /\ lifecycle' = "Failed"
    /\ init_result' = "nones"
    /\ close_calls' = close_calls + 1
    /\ page' \in DriverCloseLeaves(pg)

WireOutcomes == {"dom_parser_raises", "automation_interface_raises", "ok"}

\* Lines 127-165: construct the DomParser, then the AutomationInterface; each
\* global is assigned only after its constructor returned.
Wire(w, pg) ==
    /\ dom_parser' = (w # "dom_parser_raises")
    /\ automation_interface' = (w = "ok")
    /\ IF w = "ok"
       THEN /\ lifecycle' = "Ready"
            /\ init_result' = "components"
            /\ page' = pg
            /\ close_calls' = close_calls
       ELSE FailWithClose(pg)

\* Lines 67-80, up to the await of launch()
CreateController ==
    /\ lifecycle = "Uninitialized"
    /\ \E raised \in BOOLEAN :
          /\ playwright_controller' = ~raised
          /\ lifecycle' = IF raised THEN "Failed" ELSE "Launching"
          /\ init_result' = IF raised THEN "nones" ELSE init_result
    /\ UNCHANGED <<dom_parser, automation_interface, custom_action_handler_map,
                   page, close_calls, options, cli, server, shutdown, shutdown_requests, req>>

LaunchOutcomes == {"raises", "fails", "no_page", "ok"}

\* Lines 82-125: launch() completes; without a target_url the wiring follows
\* at once, otherwise navigate() is awaited
Launch ==
    /\ lifecycle = "Launching"
    /\ \E o \in LaunchOutcomes, has_target_url \in BOOLEAN, w \in WireOutcomes :
          IF o # "ok"
          THEN /\ FailWithClose("none")
               /\ UNCHANGED <<dom_parser, automation_interface>>
          ELSE IF has_target_url
          THEN /\ lifecycle' = "Navigating"
               /\ page' = "open"
               /\ UNCHANGED <<dom_parser, automation_interface, close_calls, init_result>>
          ELSE Wire(w, "open")
    /\ UNCHANGED <<playwright_controller, custom_action_handler_map, options, cli, server,
                   shutdown, shutdown_requests, req>>

NavigateOutcomes == {"raises", "fails", "ok"}

\* Lines 104-165: navigate() completes, then the wiring
Navigate ==
    /\ lifecycle = "Navigating"
    /\ \E o \in NavigateOutcomes, w \in WireOutcomes :
          IF o # "ok"
          THEN /\ FailWithClose(page)
               /\ UNCHANGED <<dom_parser, automation_interface>>
          ELSE Wire(w, page)
    /\ UNCHANGED <<playwright_controller, custom_action_handler_map, options, cli, server,
                   shutdown, shutdown_requests, req>>

(***************************************************************************)
(* run_mcp_server after initialization, and graceful_shutdown              *)
(***************************************************************************)
\* How many times graceful_shutdown may be called from outside run_mcp_server
MaxShutdownRequests == 2

\* Line 547: "if not init_pw or not init_dp or not init_ai: return"
ServerMayStart(result) == result = "components"

\* playwright_controller.close() called where the code does not await anything
\* (lines 605 and 630): the call and its completion are one step
CloseNow(pg) ==
    /\ close_calls' = close_calls + 1
    /\ page' \in DriverCloseLeaves(pg)
    /\ lifecycle' = "Closed"

\* Lines 545-608: initialization has returned; FastMCP(...) is constructed, and
\* when that raises the driver is closed and run_mcp_server returns
CreateServer ==
    /\ server = "not_started"
    /\ init_result # "pending"
    /\ ServerMayStart(init_result)
    /\ \E raised \in BOOLEAN :
          IF raised
          THEN /\ server' = "create_failed"
               /\ IF playwright_controller
                  THEN CloseNow(page)
                  ELSE UNCHANGED <<close_calls, page, lifecycle>>
          ELSE /\ server' = "running"
               /\ UNCHANGED <<close_calls, page, lifecycle>>
    /\ UNCHANGED <<playwright_controller, dom_parser, automation_interface,
                   custom_action_handler_map, options, cli, init_result, shutdown,
                   shutdown_requests, req>>

\* The guard of line 627 turned round: cleanup only of a page that is closed
CleanupCloses_ClosedPage(pw, pg) == pw /\ pg = "closed"

\* Line 627: the guard of the cleanup in the finally block
CleanupCloses(pw, pg) == pw /\ pg = "open"

\* Lines 616-632: mcp_server_instance.run returns or raises an Exception; the
\* finally block closes the driver when its page is still open
ServerStops ==
    /\ server = "running"
    /\ \E o \in {"returns", "raises"} : server' = "stopped"
    /\ IF CleanupCloses(playwright_controller, page)
       THEN CloseNow(page)
       ELSE UNCHANGED <<close_calls, page, lifecycle>>
    /\ UNCHANGED <<playwright_controller, dom_parser, automation_interface,
                   custom_action_handler_map, options, cli, init_result, shutdown,
                   shutdown_requests, req>>

\* Lines 649-658: graceful_shutdown closes the driver whenever the global is set
ShutdownCloses(pw) == pw

Signals == {"SIGINT", "SIGTERM"}

\* A termination signal reaches the process while the server runs.  No handler
\* is installed anywhere (signal is imported, never used): SIGTERM ends the
\* process at once, SIGINT raises KeyboardInterrupt at the await of line 616,
\* whose handler (lines 617-619) awaits graceful_shutdown().
Signal ==
    /\ server = "running"
    /\ \E sig \in Signals :
          IF sig = "SIGTERM"
          THEN /\ server' = "terminated"
               /\ shutdown' = "idle"
               /\ req' = [r \in DOMAIN req |-> Idle]
               /\ UNCHANGED <<close_calls, lifecycle>>
          ELSE /\ server' = IF ShutdownCloses(playwright_controller)
                            THEN "interrupted" ELSE "stopped_after_interrupt"
               /\ close_calls' = IF ShutdownCloses(playwright_controller)
                                 THEN close_calls + 1 ELSE close_calls
               /\ lifecycle' = IF lifecycle = "Ready" THEN "ShuttingDown" ELSE lifecycle
               /\ UNCHANGED <<shutdown, req>>
    /\ UNCHANGED <<playwright_controller, dom_parser, automation_interface,
                   custom_action_handler_map, page, options, cli, init_result,
                   shutdown_requests>>

\* Lines 658-663, then 622-632: the close handed to a worker thread by the
\* graceful_shutdown of line 619 has completed; the finally block follows
InterruptShutdownReturn ==
    /\ server = "interrupted"
    /\ server' = "stopped_after_interrupt"
    /\ lifecycle' = "Closed"
    /\ \E pg \in DriverCloseLeaves(page) :
          IF CleanupCloses(playwright_controller, pg)
          THEN /\ close_calls' = close_calls + 1
               /\ page' \in DriverCloseLeaves(pg)
          ELSE /\ close_calls' = close_calls
               /\ page' = pg
    /\ UNCHANGED <<playwright_controller, dom_parser, automation_interface,
                   custom_action_handler_map, options, cli, init_result, shutdown,
                   shutdown_requests, req>>

\* graceful_shutdown(sig) awaited by the application (the handler it installs
\* for a signal), lines 634-658 up to the await, for a session that was
\* brought up
ExternalShutdownStart ==
    /\ init_result = "components"
    /\ server # "terminated"
    /\ shutdown = "idle"
    /\ shutdown_requests < MaxShutdownRequests
    /\ shutdown_requests' = shutdown_requests + 1
    /\ IF ShutdownCloses(playwright_controller)
       THEN /\ shutdown' = "closing"
            /\ close_calls' = close_calls + 1
            /\ lifecycle' = IF lifecycle = "Ready" THEN "ShuttingDown" ELSE lifecycle
       ELSE UNCHANGED <<shutdown, close_calls, lifecycle>>
    /\ UNCHANGED <<playwright_controller, dom_parser, automation_interface,
                   custom_action_handler_map, page, options, cli, init_result, server, req>>

\* PlaywrightController.close() awaited by graceful_shutdown: a close of a
\* session that is already gone may raise instead of returning
CloseOutcomes(pg) == IF pg = "open" THEN {"returns"} ELSE {"returns", "raises"}

\* Lines 655-660 without the "except Exception" clause
GracefulShutdownEnds_NoExcept(outcome) ==
    IF outcome = "raises" THEN "raised" ELSE "idle"

\* Lines 655-660: "try: await asyncio.to_thread(playwright_controller.close)
\* except Exception as e: logger.error(...)": graceful_shutdown returns to its
\* caller after either outcome ("raised" stands for an exception leaving it)
GracefulShutdownEnds(outcome) == "idle"

\* Lines 658-663: that close has completed
ExternalShutdownReturn ==
    /\ shutdown = "closing"
    /\ \E outcome \in CloseOutcomes(page) :
          shutdown' = GracefulShutdownEnds(outcome)
    /\ lifecycle' = "Closed"
    /\ page' \in DriverCloseLeaves(page)
    /\ UNCHANGED <<playwright_controller, dom_parser, automation_interface,
                   custom_action_handler_map, close_calls, options, cli, init_result,
                   server, shutdown_requests, req>>

(***************************************************************************)
(* send_command_tool_execute                                               *)
(***************************************************************************)
Done(rq, resp) == [rq EXCEPT !.pc = "done", !.resp = resp]

\* Line 385
SendNotInitialized(pw, ai) == ~pw \/ ~ai

\* Lines 385-512, up to the first await: the request either is answered at
\* once or has one collaborator call in flight.  The guard of line 385 answers
\* before params.command_string is read (line 395), so cmd stays empty there.
SendCommandStart(raw, pw, ai, map, lc) ==
    LET p    == ParseCommand(raw)
        unread == [Idle EXCEPT !.op = "send", !.arrived = lc]
        base == [unread EXCEPT !.cmd = raw, !.parsed = p]
        d    == CoreCommandLogic(p, map)
    IN  IF SendNotInitialized(pw, ai)
        THEN Done(unread, FailureEnvelope(<<L("Server components not initialized.")>>,
                                          "NotInitialized"))
        ELSE IF ~p.ok
        THEN Done(base, FailureEnvelope(<<L("Invalid command string format.")>>,
                                        "InvalidInput"))
        ELSE IF HasCustomHandler(map, p.command_name)
        THEN IF p.has_id
             THEN [base EXCEPT !.pc = "state_call",
                               !.calls = <<CallRec("get_element_state", p.element_id, <<>>)>>]
             ELSE [base EXCEPT !.pc = "handler_call",
                               !.invoked = <<HandlerParams(NoData, p.command_args)>>]
        ELSE IF d.kind = "call"
        THEN [base EXCEPT !.pc = "driver_call",
                          !.calls = <<CallRec(d.fn, d.id, d.arg)>>]
        ELSE Done(base, Envelope(d.result))

\* The three tool coroutines are module-level functions: nothing but their own
\* guards keeps them from being awaited in a lifecycle state other than Ready.
StartSendOf(r, commands) ==
    /\ req[r].pc = "idle"
    /\ server # "terminated"
    /\ \E raw \in commands :
          req' = [req EXCEPT ![r] = SendCommandStart(raw, playwright_controller,
                                       automation_interface, custom_action_handler_map,
                                       lifecycle)]
    /\ UNCHANGED <<lifecycle, playwright_controller, dom_parser, automation_interface,
                   custom_action_handler_map, page, close_calls, options, cli, init_result,
                   server, shutdown, shutdown_requests>>

StateLookupFailed_SuccessOnly(result) == ~result.success

\* Line 440
StateLookupFailed(result) == ~result.success \/ result.data = NoData

StartSend(r) == StartSendOf(r, CommandStrings)

\* Lines 439-465: get_element_state returned (or raised, outside any try)
AfterElementState(rq, o) ==
    LET p  == rq.parsed
        r1 == [rq EXCEPT !.last = o, !.kept = o.result]
    IN  IF o.raised THEN Done(r1, Propagated(o.text))
        ELSE IF StateLookupFailed(o.result)
        THEN Done(r1, FailureEnvelope(
                 <<L("Failed to get element state for #"), V(p.element_id), L(": ")>>
                     \o o.result.message,
                 IF o.result.error_type # NoneVal THEN o.result.error_type
                                                  ELSE "ElementNotFound"))
        ELSE [r1 EXCEPT !.pc = "handler_call",
                        !.invoked = <<HandlerParams(
                             IF o.result.data.kind = "element" THEN o.result.data ELSE NoData,
                             p.command_args)>>]

StateReturn(r) ==
    /\ req[r].pc = "state_call"
    /\ \E o \in StateOutcomes(req[r].parsed.element_id) :
          req' = [req EXCEPT ![r] = AfterElementState(req[r], o)]
    /\ UNCHANGED <<lifecycle, playwright_controller, dom_parser, automation_interface,
                   custom_action_handler_map, page, close_calls, options, cli, init_result,
                   server, shutdown, shutdown_requests>>

HandlerReply_NoTry(command_name, o) ==
    IF o.raised THEN Propagated(o.text) ELSE Envelope(o.result)

HandlerReply_FillsErrorType(command_name, o) ==
    IF o.raised
    THEN FailureEnvelope(<<L("Error executing custom handler for \""), V(command_name),
                           L("\": "), L(o.text)>>, "ActionFailed")
    ELSE IF ~o.result.success /\ o.result.error_type = NoneVal
    THEN FailureEnvelope(o.result.message, "ActionFailed")
    ELSE Envelope(o.result)

\* Lines 455-474: the handler's ActionResult is dumped; an exception becomes
\* an ActionFailed envelope
HandlerReply(command_name, o) ==
    IF o.raised
    THEN FailureEnvelope(<<L("Error executing custom handler for \""), V(command_name),
                           L("\": "), L(o.text)>>, "ActionFailed")
    ELSE Envelope(o.result)

HandlerReturn(r) ==
    /\ req[r].pc = "handler_call"
    /\ \E o \in HandlerOutcomes :
          req' = [req EXCEPT ![r] =
                     Done([req[r] EXCEPT !.last = o],
                          HandlerReply(req[r].parsed.command_name, o))]
    /\ UNCHANGED <<lifecycle, playwright_controller, dom_parser, automation_interface,
                   custom_action_handler_map, page, close_calls, options, cli, init_result,
                   server, shutdown, shutdown_requests>>

DriverReply_Reclassifies(o) ==
    IF o.raised THEN Propagated(o.text)
    ELSE IF o.result.success THEN Envelope(o.result)
    ELSE FailureEnvelope(o.result.message, "ActionFailed")

\* Lines 491-528: the awaited driver call is not inside any try
DriverReply(o) == IF o.raised THEN Propagated(o.text) ELSE Envelope(o.result)

\* A driver action that succeeded has acted on the page
PageMoves(o) == ~o.raised /\ o.result.success

\* Lines 196-197: the coroutine holds the result of get_structured_data and
\* awaits get_interactive_elements_with_state, which will read the page as it
\* is then
BetweenReads(rq) == rq.op = "data" /\ rq.pc = "elements_call"

DriverReturn(r) ==
    /\ req[r].pc = "driver_call"
    /\ \E o \in DriverOutcomes :
          req' = [s \in DOMAIN req |->
                     IF s = r THEN Done([req[r] EXCEPT !.last = o], DriverReply(o))
                     ELSE IF PageMoves(o) /\ BetweenReads(req[s])
                          THEN [req[s] EXCEPT !.moved = TRUE]
                          ELSE req[s]]
    /\ UNCHANGED <<lifecycle, playwright_controller, dom_parser, automation_interface,
                   custom_action_handler_map, page, close_calls, options, cli, init_result,
                   server, shutdown, shutdown_requests>>

(***************************************************************************)
(* get_current_screen_data_execute / get_current_screen_actions_execute    *)
(***************************************************************************)
\* Lines 173 and 237: "not dom_parser or not playwright_controller or not
\* playwright_controller.get_page()"
ScreenNotInitialized(dp, pw, pg) == ~dp \/ ~pw \/ pg = "none"

\* Lines 173-196, up to the first await
ScreenDataStart(dp, pw, pg, lc) ==
    LET base == [Idle EXCEPT !.op = "data", !.arrived = lc]
    IN  IF ScreenNotInitialized(dp, pw, pg)
        THEN Done(base, SnapshotFailure(<<L("Server components not initialized.")>>,
                                        "NotInitialized"))
        ELSE IF pg = "closed"
        THEN Done(base, SnapshotFailure(
                 <<L("Page is closed or not available. Cannot retrieve screen data.")>>,
                 "PageNotAvailable"))
        ELSE [base EXCEPT !.pc = "structured_call",
                          !.calls = <<CallRec("get_structured_data", NoId, <<>>)>>]

StartData(r) ==
    /\ req[r].pc = "idle"
    /\ server # "terminated"
    /\ req' = [req EXCEPT ![r] = ScreenDataStart(dom_parser, playwright_controller,
                                                 page, lifecycle)]
    /\ UNCHANGED <<lifecycle, playwright_controller, dom_parser, automation_interface,
                   custom_action_handler_map, page, close_calls, options, cli, init_result,
                   server, shutdown, shutdown_requests>>

\* Lines 196-197 and 225-231: get_structured_data returned or raised
AfterStructured(rq, o) ==
    IF o.raised
    THEN Done([rq EXCEPT !.last = o],
              SnapshotFailure(<<L("Error fetching screen data: "), L(o.text)>>, "ActionFailed"))
    ELSE [rq EXCEPT !.last = o, !.kept = o.result, !.pc = "elements_call",
                    !.calls = Append(@, CallRec("get_interactive_elements_with_state",
                                                NoId, <<>>))]

StructuredReturn(r) ==
    /\ req[r].pc = "structured_call"
    /\ \E o \in StructuredOutcomes :
          req' = [req EXCEPT ![r] = AfterStructured(req[r], o)]
    /\ UNCHANGED <<lifecycle, playwright_controller, dom_parser, automation_interface,
                   custom_action_handler_map, page, close_calls, options, cli, init_result,
                   server, shutdown, shutdown_requests>>

\* Lines 197-231: get_interactive_elements_with_state returned or raised
AfterElements(rq, o) ==
    IF o.raised
    THEN Done([rq EXCEPT !.last = o],
              SnapshotFailure(<<L("Error fetching screen data: "), L(o.text)>>, "ActionFailed"))
    ELSE Done([rq EXCEPT !.last = o], SnapshotResponse(rq.kept, o.result))

ElementsReturn(r) ==
    /\ req[r].pc = "elements_call"
    /\ \E o \in ElementsOutcomes :
          req' = [req EXCEPT ![r] = AfterElements(req[r], o)]
    /\ UNCHANGED <<lifecycle, playwright_controller, dom_parser, automation_interface,
                   custom_action_handler_map, page, close_calls, options, cli, init_result,
                   server, shutdown, shutdown_requests>>

\* Lines 237-262, up to the await
ScreenActionsStart(dp, pw, pg, lc) ==
    LET base == [Idle EXCEPT !.op = "actions", !.arrived = lc]
    IN  IF ScreenNotInitialized(dp, pw, pg)
        THEN Done(base, ActionsResponse(FALSE, <<L("Server components not initialized.")>>,
                                        <<>>, "NotInitialized"))
        ELSE IF pg = "closed"
        THEN Done(base, ActionsResponse(FALSE,
                 <<L("Page is closed. Cannot retrieve screen actions.")>>,
                 <<>>, "PageNotAvailable"))
        ELSE [base EXCEPT !.pc = "actions_call",
                          !.calls = <<CallRec("get_interactive_elements_with_state",
                                              NoId, <<>>)>>]

StartActions(r) ==
    /\ req[r].pc = "idle"
    /\ server # "terminated"
    /\ req' = [req EXCEPT ![r] = ScreenActionsStart(dom_parser, playwright_controller,
                                                    page, lifecycle)]
    /\ UNCHANGED <<lifecycle, playwright_controller, dom_parser, automation_interface,
                   custom_action_handler_map, page, close_calls, options, cli, init_result,
                   server, shutdown, shutdown_requests>>

\* Lines 262-379
AfterActionsElements(rq, o) ==
    IF o.raised
    THEN Done([rq EXCEPT !.last = o],
              ActionsResponse(FALSE, <<L("Error fetching screen actions: "), L(o.text)>>,
                              <<>>, "ActionFailed"))
    ELSE Done([rq EXCEPT !.last = o], ActionsFromResult(o.result))

ActionsReturnOf(r, outcomes) ==
    /\ req[r].pc = "actions_call"
    /\ \E o \in outcomes :
          req' = [req EXCEPT ![r] = AfterActionsElements(req[r], o)]
    /\ UNCHANGED <<lifecycle, playwright_controller, dom_parser, automation_interface,
                   custom_action_handler_map, page, close_calls, options, cli, init_result,
                   server, shutdown, shutdown_requests>>

ActionsReturn(r) == ActionsReturnOf(r, ElementsOutcomes)

\* The caller has taken the reply; the slot is free for the next request
Finish(r) ==
    /\ req[r].pc = "done"
    /\ req' = [req EXCEPT ![r] = Idle]
    /\ UNCHANGED <<lifecycle, playwright_controller, dom_parser, automation_interface,
                   custom_action_handler_map, page, close_calls, options, cli, init_result,
                   server, shutdown, shutdown_requests>>

Next ==
    \/ CreateController
    \/ Launch
    \/ Navigate
    \/ CreateServer
    \/ \E r \in Slots : StartSend(r)
    \/ \E r \in Slots : StateReturn(r)
    \/ \E r \in Slots : HandlerReturn(r)
    \/ \E r \in Slots : DriverReturn(r)
    \/ \E r \in Slots : StartData(r)
    \/ \E r \in Slots : StructuredReturn(r)
    \/ \E r \in Slots : ElementsReturn(r)
    \/ \E r \in Slots : StartActions(r)
    \/ \E r \in Slots : ActionsReturn(r)
    \/ \E r \in Slots : Finish(r)

\* A session is brought up, the protocol server is created, requests are served
Spec == Init /\ [][Next]_vars

\* The commands sent while the whole of run_mcp_server is followed
\* The coroutine serving rq is awaiting a call into the driver or the extractor
CallInFlight(rq) ==
    rq.pc \in {"state_call", "driver_call", "structured_call", "elements_call",
              "actions_call"}

\* Lines 494-512 with the driver's action called directly instead of through
\* asyncio.to_thread
CallThread_DriverInline(pc) == IF pc = "driver_call" THEN "loop" ELSE "worker"

\* The thread the collaborator call awaited at this position runs on: every one
\* is "await asyncio.to_thread(...)" (lines 196, 197, 262, 439, 494-512)
CallThread(pc) == "worker"

\* No call in flight occupies the thread of the event loop, which runs every
\* coroutine of the server
EventLoopFree ==
    \A r \in DOMAIN req : CallInFlight(req[r]) => CallThread(req[r].pc) = "worker"

LifecycleCommands == {Cmd_click_a, Cmd_note_a}

\* Line 616: the thread running mcp_server_instance.run is alive.  A
\* KeyboardInterrupt ends the await, not the thread.
ServerThreadRuns == server \in {"running", "interrupted", "stopped_after_interrupt"}

\* The protocol server awaits a tool's execute function for a request it received
ServeSend(r) == ServerThreadRuns /\ EventLoopFree /\ StartSendOf(r, LifecycleCommands)

ServeData(r) == ServerThreadRuns /\ EventLoopFree /\ StartData(r)

ServeActions(r) == ServerThreadRuns /\ EventLoopFree /\ StartActions(r)

LifecycleNext ==
    \/ CreateController
    \/ Launch
    \/ Navigate
    \/ CreateServer
    \/ ServerStops
    \/ Signal
    \/ InterruptShutdownReturn
    \/ ExternalShutdownStart
    \/ ExternalShutdownReturn
    \/ \E r \in Slots : ServeSend(r)
    \/ \E r \in Slots : StateReturn(r)
    \/ \E r \in Slots : HandlerReturn(r)
    \/ \E r \in Slots : DriverReturn(r)
    \/ \E r \in Slots : ServeData(r)
    \/ \E r \in Slots : StructuredReturn(r)
    \/ \E r \in Slots : ElementsReturn(r)
    \/ \E r \in Slots : ServeActions(r)
    \/ \E r \in Slots : ActionsReturn(r)
    \/ \E r \in Slots : Finish(r)

\* run_mcp_server from its entry to its return, with the requests it serves
LifecycleSpec == Init /\ [][LifecycleNext]_vars

\* How many requests the server has in progress at once when it serves
\* several clients
NumConc == 2

ConcSlots == 1..NumConc

ConcInit == InitWith(ConcSlots)

ConcNext ==
    \/ CreateController
    \/ Launch
    \/ Navigate
    \/ CreateServer
    \/ \E r \in ConcSlots : ServeSend(r)
    \/ \E r \in ConcSlots : StateReturn(r)
    \/ \E r \in ConcSlots : HandlerReturn(r)
    \/ \E r \in ConcSlots : DriverReturn(r)
    \/ \E r \in ConcSlots : ServeData(r)
    \/ \E r \in ConcSlots : StructuredReturn(r)
    \/ \E r \in ConcSlots : ElementsReturn(r)
    \/ \E r \in ConcSlots : ServeActions(r)
    \/ \E r \in ConcSlots : ActionsReturn(r)
    \/ \E r \in ConcSlots : Finish(r)

\* The session serving several requests at once
ConcSpec == ConcInit /\ [][ConcNext]_vars

(***************************************************************************)
(* The command parser on its own: send_command in a Ready session over a   *)
(* bounded set of command strings                                          *)
(***************************************************************************)
\* The longest argument text of a command string
MaxArgText == 6

\* The characters of the argument text: whitespace, the quote, and a letter
\* whose case shows
ArgChars == {" ", QUOTE, "B"}

\* The texts of at most n argument characters
RECURSIVE TextsUpTo(_)
TextsUpTo(n) ==
    IF n = 0 THEN {<<>>}
    ELSE LET shorter == TextsUpTo(n - 1)
         IN  shorter \cup {Append(text, c) : text \in shorter, c \in ArgChars}

ArgTexts == TextsUpTo(MaxArgText)

S_Type == <<"T","y","p","e">>

\* The command name as the client writes it (none, lower case, mixed case)
WrittenNames == {<<>>, S_type, S_Type}

\* What follows the name before the argument text: nothing, an element id
\* after whitespace, an element id right after the name, and a # token that
\* comes after another argument
WrittenIds ==
    {<<>>, <<" ","#","B">>, <<"#","B">>, <<" ","B"," ","#","B">>}

\* params.command_string, as the protocol client may send it
ParserInputs ==
    {name \o id \o text : name \in WrittenNames, id \in WrittenIds, text \in ArgTexts}

ParserSlots == {1}

\* The session after initialize_browser_and_dependencies returned its three
\* components and the protocol server started: the state in which
\* send_command reaches the parser
ReadySession(slots, maps, startups) ==
    /\ lifecycle = "Ready"
    /\ playwright_controller = TRUE
    /\ dom_parser = TRUE
    /\ automation_interface = TRUE
    /\ custom_action_handler_map \in maps
    /\ options \in startups
    /\ (DOMAIN options.custom_action_handlers # {}) => (DOMAIN custom_action_handler_map = {})
    /\ page = "open"
    /\ cli = CliIdle
    /\ close_calls = 0
    /\ init_result = "components"
    /\ server = "running"
    /\ shutdown = "idle"
    /\ shutdown_requests = 0
    /\ req = [r \in slots |-> Idle]

ParserInit ==
    ReadySession(ParserSlots, {Registry({}, FALSE), Registry({S_type}, TRUE)}, StartupOptions)

ParseSend(r) == StartSendOf(r, ParserInputs)

ParserNext ==
    \/ \E r \in ParserSlots : ParseSend(r)
    \/ \E r \in ParserSlots : StateReturn(r)
    \/ \E r \in ParserSlots : HandlerReturn(r)
    \/ \E r \in ParserSlots : DriverReturn(r)
    \/ \E r \in ParserSlots : Finish(r)

ParserSpec == ParserInit /\ [][ParserNext]_vars

(***************************************************************************)
(* The action-descriptor assembler on its own: get_current_screen_actions  *)
(* in a Ready session over a bounded set of element lists                  *)
(***************************************************************************)
\* The longest element list the extractor returns
MaxElements == 2

T_div                  == <<"d","i","v">>
T_input_reset          == <<"i","n","p","u","t","-","r","e","s","e","t">>
T_input_range          == <<"i","n","p","u","t","-","r","a","n","g","e">>
T_input_datetime       == <<"i","n","p","u","t","-","d","a","t","e","t","i","m","e">>
T_input_datetime_local == <<"i","n","p","u","t","-","d","a","t","e","t","i","m","e","-","l","o","c","a","l">>

\* One <option> of a select element
AnOption == [value |-> <<"v">>, text |-> <<"t">>]

\* The elements the extractor may report: every kind the rules of lines
\* 281-351 tell apart, under either id, a checkbox checked or not, a radio
\* with or without a group, a select with or without options
ElementPool ==
    { Element(id, t, FALSE, <<>>, <<>>) :
        id \in {Id_a, Id_B},
        t \in {T_button, T_a, T_div, T_select, T_textarea, T_input_text, T_input_submit,
               T_input_file, T_input_reset, T_input_range, T_input_datetime,
               T_input_datetime_local, T_input_checkbox, T_input_radio} }
    \cup { Element(id, T_input_checkbox, TRUE, <<>>, <<>>) : id \in {Id_a, Id_B} }
    \cup { Element(id, T_input_radio, FALSE, <<"g">>, <<>>) : id \in {Id_a, Id_B} }
    \cup { Element(id, T_select, FALSE, <<>>, <<AnOption>>) : id \in {Id_a, Id_B} }

\* The lists of at most n elements of the pool
RECURSIVE ListsUpTo(_)
ListsUpTo(n) ==
    IF n = 0 THEN {<<>>}
    ELSE LET shorter == ListsUpTo(n - 1)
         IN  shorter \cup {Append(els, el) : els \in shorter, el \in ElementPool}

AssemblerLists == {els \in ListsUpTo(MaxElements) : els # <<>>}

\* get_interactive_elements_with_state(), as the assembler may see it return
AssemblerOutcomes ==
    { Returns(ActionResult(TRUE, <<L("found")>>, els, NoneVal)) : els \in AssemblerLists }
    \cup { Returns(ActionResult(FALSE, <<L("failed")>>, <<>>, NoneVal)) }
    \cup { Raises(t) : t \in ExceptionTexts }

AssemblerSlots == {1}

\* The assembler reads neither the handler map nor the options
AssemblerInit ==
    ReadySession(AssemblerSlots, {Registry({}, FALSE)}, {McpServerOptions(Registry({}, FALSE))})

AssembleReturn(r) == ActionsReturnOf(r, AssemblerOutcomes)

AssemblerNext ==
    \/ \E r \in AssemblerSlots : StartActions(r)
    \/ \E r \in AssemblerSlots : AssembleReturn(r)
    \/ \E r \in AssemblerSlots : Finish(r)

AssemblerSpec == AssemblerInit /\ [][AssemblerNext]_vars

(***************************************************************************)
(* run_mcp_server from the return of a successful initialization (line     *)
(* 545) to its own return, with graceful_shutdown and the requests served  *)
(***************************************************************************)
RunSlots == {1}

\* Lines 545-553: initialize_browser_and_dependencies returned its three
\* components; FastMCP is not constructed yet
RunInit ==
    /\ lifecycle = "Ready"
    /\ playwright_controller = TRUE
    /\ dom_parser = TRUE
    /\ automation_interface = TRUE
    /\ custom_action_handler_map = Registry({S_note}, FALSE)
    /\ options = McpServerOptions(Registry({}, FALSE))
    /\ page = "open"
    /\ cli = CliIdle
    /\ close_calls = 0
    /\ init_result = "components"
    /\ server = "not_started"
    /\ shutdown = "idle"
    /\ shutdown_requests = 0
    /\ req = [r \in RunSlots |-> Idle]

RunNext ==
    \/ CreateServer
    \/ ServerStops
    \/ Signal
    \/ InterruptShutdownReturn
    \/ ExternalShutdownStart
    \/ ExternalShutdownReturn
    \/ \E r \in RunSlots : ServeSend(r)
    \/ \E r \in RunSlots : StateReturn(r)
    \/ \E r \in RunSlots : HandlerReturn(r)
    \/ \E r \in RunSlots : DriverReturn(r)
    \/ \E r \in RunSlots : ServeData(r)
    \/ \E r \in RunSlots : StructuredReturn(r)
    \/ \E r \in RunSlots : ElementsReturn(r)
    \/ \E r \in RunSlots : Finish(r)

RunSpec == RunInit /\ [][RunNext]_vars

(***************************************************************************)
(* The running server taking requests side by side: a Ready session whose  *)
(* protocol server awaits the tool coroutines on one event loop            *)
(***************************************************************************)
OffloadInit ==
    ReadySession(ConcSlots, {Registry({S_note}, FALSE)}, {McpServerOptions(Registry({}, FALSE))})

OffloadNext ==
    \/ \E r \in ConcSlots : ServeSend(r)
    \/ \E r \in ConcSlots : StateReturn(r)
    \/ \E r \in ConcSlots : HandlerReturn(r)
    \/ \E r \in ConcSlots : DriverReturn(r)
    \/ \E r \in ConcSlots : ServeData(r)
    \/ \E r \in ConcSlots : StructuredReturn(r)
    \/ \E r \in ConcSlots : ElementsReturn(r)
    \/ \E r \in ConcSlots : ServeActions(r)
    \/ \E r \in ConcSlots : ActionsReturn(r)
    \/ \E r \in ConcSlots : Finish(r)

OffloadSpec == OffloadInit /\ [][OffloadNext]_vars

(***************************************************************************)
(* The command hints of the assembler sent back through send_command, as   *)
(* an agent does with the descriptors it was given                         *)
(***************************************************************************)
Id_x1 == <<"x","-","1">>

Id_quoted == <<"a",QUOTE>>

\* Element ids without whitespace: short and longer ones, of either case, with
\* a character the parser treats specially elsewhere
HintIds == {Id_a, Id_B, Id_x1, Id_quoted}

\* The elements whose descriptors are sent back: those of the pool, under each
\* of the ids
HintElements == { [el EXCEPT !.id = id] : el \in ElementPool, id \in HintIds }

\* The commandHint of every descriptor generated for the element
HintsOf(el) ==
    { GeneratedActions(el)[i].commandHint : i \in DOMAIN GeneratedActions(el) }

HintCommands == UNION { HintsOf(el) : el \in HintElements }

HintSlots == {1}

HintInit ==
    ReadySession(HintSlots, {Registry({}, FALSE)}, {McpServerOptions(Registry({}, FALSE))})

\* send_command is given a commandHint as its command_string
SendHint(r) == StartSendOf(r, HintCommands)

HintNext ==
    \/ \E r \in HintSlots : SendHint(r)
    \/ \E r \in HintSlots : DriverReturn(r)
    \/ \E r \in HintSlots : Finish(r)

HintSpec == HintInit /\ [][HintNext]_vars

(***************************************************************************)
(* The CLI's start command (main.py): the server_version option            *)
(***************************************************************************)
Digits == {"0", "1", "2", "3", "4", "5", "6", "7", "8", "9"}

\* \d+\.\d+\.\d+ over the whole text: three runs of digits with a dot
\* between them
IsXYZ(cs) ==
    LET dots == {i \in DOMAIN cs : cs[i] = "."}
    IN  /\ Cardinality(dots) = 2
        /\ \A i \in DOMAIN cs : i \notin dots => cs[i] \in Digits
        /\ \A i \in dots : i > 1 /\ i < Len(cs) /\ (i + 1) \notin dots

\* Line 139: re.match(r"^\d+\.\d+\.\d+$", text); "$" also matches before a
\* newline that ends the text
MatchesVersionPattern(cs) ==
    \/ IsXYZ(cs)
    \/ (cs # <<>> /\ cs[Len(cs)] = "\n" /\ IsXYZ(Take(cs, Len(cs) - 1)))

\* Lines 94-110: _resolve_option for a text option: the command line, then the
\* configuration file, then the environment variable, else None
ResolveOption(cli_val, file_val, env_val) ==
    IF cli_val.given THEN cli_val
    ELSE IF file_val.given THEN file_val
    ELSE env_val

\* Lines 121-122 and 136-146: final_options_dict["server_version"] after the
\* dict was updated from the configuration file and the resolved value was
\* tested
FinalServerVersion(cli_val, file_val, env_val) ==
    LET resolved == ResolveOption(cli_val, file_val, env_val)
    IN  IF resolved.given /\ resolved.text # <<>> /\ MatchesVersionPattern(resolved.text)
        THEN resolved
        ELSE file_val

\* The texts a source may hold for server_version
VersionTexts ==
    { <<"1",".","0",".","1">>, <<"1","0",".","2",".","3">>, <<"1",".","2">>,
      <<"v","1",".","0",".","1">>, <<"1",".","0",".","1","\n">>, <<>> }

VersionSources == {Absent} \cup {Given(t) : t \in VersionTexts}

\* Lines 44-92: start is invoked with its command line, configuration file and
\* environment
CliStart ==
    /\ cli.pc = "idle"
    /\ \E c \in VersionSources, f \in VersionSources, e \in VersionSources :
          cli' = [cli EXCEPT !.pc = "invoked", !.cli_val = c, !.file_val = f, !.env_val = e]
    /\ UNCHANGED <<lifecycle, playwright_controller, dom_parser, automation_interface,
                   custom_action_handler_map, page, close_calls, options, init_result,
                   server, shutdown, shutdown_requests, req>>

\* Lines 121-147: final_options_dict is built
CliResolve ==
    /\ cli.pc = "invoked"
    /\ cli' = [cli EXCEPT !.pc = "resolved",
                          !.server_version = FinalServerVersion(cli.cli_val, cli.file_val,
                                                                cli.env_val)]
    /\ UNCHANGED <<lifecycle, playwright_controller, dom_parser, automation_interface,
                   custom_action_handler_map, page, close_calls, options, init_result,
                   server, shutdown, shutdown_requests, req>>

\* Lines 170-177: McpServerOptions(**final_options_dict)
CliOptions ==
    /\ cli.pc = "resolved"
    /\ cli' = [cli EXCEPT !.pc = "passed"]
    /\ UNCHANGED <<lifecycle, playwright_controller, dom_parser, automation_interface,
                   custom_action_handler_map, page, close_calls, options, init_result,
                   server, shutdown, shutdown_requests, req>>

CliInit ==
    /\ InitWith(Slots)
    /\ custom_action_handler_map = Registry({}, FALSE)
    /\ options = McpServerOptions(Registry({}, FALSE))

CliNext == CliStart \/ CliResolve \/ CliOptions

CliSpec == CliInit /\ [][CliNext]_vars

(***************************************************************************)
(* Properties                                                              *)
(***************************************************************************)
\* The built-in driver actions
DriverActionFns ==
    {"click", "type_text", "select_option", "check_element", "uncheck_element",
     "select_radio_button"}

DriverActionCalls(rq) == {i \in 1..Len(rq.calls) : rq.calls[i].fn \in DriverActionFns}

\* What the coroutine in slot r parsed from its command string
Parsed(r) == req[r].parsed

\* A handler is stored in the registry under exactly this name
Registered(name) == name \in DOMAIN custom_action_handler_map

\* A send-command request that arrived while the session was Ready
SendInReady(r) == req[r].op = "send" /\ req[r].arrived = "Ready"

Answered(r) == req[r].pc = "done"

IsFailure(resp, error_type) ==
    /\ resp.kind # "exception"
    /\ resp.success = FALSE
    /\ resp.error_type = error_type

Contains(message, part) == \E i \in 1..Len(message) : message[i] = part

\* C1: whatever the command and whatever a collaborator does, raising
\* included, every request ends with a reply object and never with an
\* exception; when a collaborator raised, the reply has success = false, an
\* error_type and a message.
C1_NeverThrowsOutward ==
    \A r \in DOMAIN req :
        Answered(r) =>
            /\ req[r].resp.kind # "exception"
            /\ req[r].last.raised =>
                  /\ req[r].resp.success = FALSE
                  /\ req[r].resp.error_type # NoneVal
                  /\ req[r].resp.message # NoMessage

C3_ExactlyOnePath ==
    \A r \in DOMAIN req :
        req[r].op = "send" =>
            /\ Len(req[r].invoked) + Cardinality(DriverActionCalls(req[r])) <= 1
            /\ Answered(r) => req[r].resp.kind = "envelope"

\* C4: in a Ready session, a command with no registered handler whose name is
\* not a core command is answered InvalidInput with a message naming the
\* command as unrecognized, without any driver call or handler invocation.
C4_UnknownCommandRejected ==
    \A r \in DOMAIN req :
        (/\ SendInReady(r)
         /\ Parsed(r).ok
         /\ ~Registered(Parsed(r).command_name)
         /\ Parsed(r).command_name \notin CoreCommands)
            => /\ Answered(r)
               /\ IsFailure(req[r].resp, "InvalidInput")
               /\ Contains(req[r].resp.message, V(Parsed(r).command_name))
               /\ Contains(req[r].resp.message,
                     L("\" is not a recognized core command and no custom handler is registered for it."))
               /\ req[r].calls = <<>>
               /\ req[r].invoked = <<>>

\* C4 witness: "zap #a", an unknown command that carries an element id, was
\* rejected.
C4_Witness ==
    \E r \in DOMAIN req :
        /\ SendInReady(r) /\ Answered(r)
        /\ req[r].cmd = Cmd_zap_a
        /\ ~Registered(Parsed(r).command_name)
        /\ IsFailure(req[r].resp, "InvalidInput")

\* C5: in a Ready session, a core command with no registered handler and no
\* element id is answered InvalidInput and makes no driver call.
C5_MissingIdRejected ==
    \A r \in DOMAIN req :
        (/\ SendInReady(r)
         /\ Parsed(r).ok
         /\ Parsed(r).command_name \in CoreCommands
         /\ ~Registered(Parsed(r).command_name)
         /\ ~Parsed(r).has_id)
            => /\ Answered(r)
               /\ IsFailure(req[r].resp, "InvalidInput")
               /\ req[r].calls = <<>>

\* C5 witness: "type x" (a core command, an argument, no element id) was
\* rejected.
C5_Witness ==
    \E r \in DOMAIN req :
        /\ SendInReady(r) /\ Answered(r)
        /\ req[r].cmd = Cmd_type_x
        /\ ~Registered(S_type)
        /\ IsFailure(req[r].resp, "InvalidInput")

\* C6: in a Ready session, a built-in type or select command with an element
\* id and an empty argument list is answered InvalidInput and never calls
\* type_text or select_option.
C6_MissingArgumentRejected ==
    \A r \in DOMAIN req :
        (/\ SendInReady(r)
         /\ Parsed(r).ok
         /\ Parsed(r).command_name \in {S_type, S_select}
         /\ ~Registered(Parsed(r).command_name)
         /\ Parsed(r).has_id
         /\ Parsed(r).command_args = <<>>)
            => /\ Answered(r)
               /\ IsFailure(req[r].resp, "InvalidInput")
               /\ \A i \in 1..Len(req[r].calls) :
                     req[r].calls[i].fn \notin {"type_text", "select_option"}

\* C6 witness: "select #a" with no registered handler was rejected.
C6_Witness ==
    \E r \in DOMAIN req :
        /\ SendInReady(r) /\ Answered(r)
        /\ req[r].cmd = Cmd_select_a
        /\ ~Registered(S_select)
        /\ IsFailure(req[r].resp, "InvalidInput")

\* C7: when the custom handler raises, the reply is a failure envelope with
\* error_type ActionFailed whose message contains the exception's text, no
\* exception propagates, and the globals that admit the next request are
\* still set.
C7_HandlerExceptionContained ==
    \A r \in DOMAIN req :
        (req[r].op = "send" /\ Answered(r) /\ req[r].invoked # <<>> /\ req[r].last.raised)
            => /\ req[r].resp.kind = "envelope"
               /\ IsFailure(req[r].resp, "ActionFailed")
               /\ Contains(req[r].resp.message, L(req[r].last.text))
               /\ ~SendNotInitialized(playwright_controller, automation_interface)

\* C7 witness: a handler raised and the request was answered.
C7_Witness ==
    \E r \in DOMAIN req :
        /\ req[r].op = "send" /\ Answered(r)
        /\ req[r].invoked # <<>>
        /\ req[r].last.raised
        /\ req[r].last.text \in ExceptionTexts

\* get_element_state has returned a result to the request in slot r
StateLookupReturned(r) ==
    /\ req[r].op = "send"
    /\ req[r].calls # <<>>
    /\ req[r].calls[1].fn = "get_element_state"
    /\ req[r].kept # NoResult

\* C8: for a command with a registered handler and an element id, when the
\* state lookup returns an unsuccessful result or no data, the reply is a
\* failure with the lookup's error kind (ElementNotFound when it gave none)
\* and the handler is not invoked.
C8_StateLookupFailureShortCircuits ==
    \A r \in DOMAIN req :
        (/\ StateLookupReturned(r)
         /\ Registered(Parsed(r).command_name)
         /\ Parsed(r).has_id
         /\ (~req[r].kept.success \/ req[r].kept.data = NoData))
            => /\ Answered(r)
               /\ IsFailure(req[r].resp,
                     IF req[r].kept.error_type # NoneVal THEN req[r].kept.error_type
                                                         ELSE "ElementNotFound")
               /\ req[r].invoked = <<>>

\* C8 witness: the lookup succeeded but carried no data, and the request was
\* answered ElementNotFound.
C8_Witness ==
    \E r \in DOMAIN req :
        /\ StateLookupReturned(r) /\ Answered(r)
        /\ Registered(Parsed(r).command_name)
        /\ req[r].kept.success /\ req[r].kept.data = NoData
        /\ IsFailure(req[r].resp, "ElementNotFound")

\* Both extractor reads of a get-screen-data request have returned
BothReadsReturned(r) ==
    /\ req[r].op = "data"
    /\ Answered(r)
    /\ Len(req[r].calls) = 2
    /\ ~req[r].last.raised

\* C9: when either extractor read reports failure, the snapshot has
\* success = false with the extractor's error kind, empty fields and no
\* element the extractor did not return.
C9_ExtractorFailurePreserved ==
    \A r \in DOMAIN req :
        (BothReadsReturned(r) /\ (~req[r].kept.success \/ ~req[r].last.result.success))
            => /\ req[r].resp.success = FALSE
               /\ req[r].resp.error_type \in
                     {res.error_type : res \in {x \in {req[r].kept, req[r].last.result} :
                                                  ~x.success}}
               /\ ~req[r].kept.success => req[r].resp.structured_data = EmptyStructured
               /\ ~req[r].last.result.success => req[r].resp.interactive_elements = <<>>

\* C10: a request that arrives while the session is not Ready (before
\* initialization completed, or after it failed) is answered NotInitialized
\* and makes no driver or extractor call.
C10_NotReadyIsNotInitialized ==
    \A r \in DOMAIN req :
        (req[r].op # "idle" /\ req[r].arrived # "Ready")
            => /\ Answered(r)
               /\ IsFailure(req[r].resp, "NotInitialized")
               /\ req[r].calls = <<>>

\* C11: while several send-command, get-screen-data and get-screen-actions
\* requests are served at once, at most one call into the driver or the
\* extractor is in flight at any moment.
C11_DriverCallsSerialized ==
    Cardinality({r \in DOMAIN req : CallInFlight(req[r])}) <= 1

\* run_mcp_server has returned
ServerReturned == server \in {"create_failed", "stopped", "stopped_after_interrupt"}

\* C12: over any sequence of shutdown requests (calls of graceful_shutdown and
\* the cleanup after the server stopped) the driver's close is invoked exactly
\* once: once shutting down or Closed, and once run_mcp_server has returned
\* from a session it brought up, close has been called one time, never a
\* second time.
C12_CloseExactlyOnce ==
    /\ lifecycle \in {"ShuttingDown", "Closed"} => close_calls = 1
    /\ (ServerReturned /\ init_result = "components") => close_calls = 1

C14_NoCallsAfterClosed ==
    /\ \A r \in DOMAIN req :
          (req[r].op # "idle" /\ req[r].arrived = "Closed") => req[r].calls = <<>>
    /\ lifecycle = "Ready" => close_calls = 0

\* A termination signal arrived while the server ran, and what it set off is over
SignalHandled == server \in {"terminated", "stopped_after_interrupt"}

\* C15: a termination signal (SIGINT or SIGTERM) that arrives while the session
\* is Ready leads to the graceful shutdown: by the time the process has dealt
\* with the signal, the driver's close has been invoked and the session is
\* Closed.
C15_SignalLeadsToClosed ==
    SignalHandled => (close_calls >= 1 /\ lifecycle = "Closed")

\* The dispatcher resolved the command of slot r to a custom handler: it
\* looked the target element up for it or, without an element id, invoked it
HandlerPathTaken(r) ==
    IF Parsed(r).has_id
    THEN req[r].calls # <<>> /\ req[r].calls[1].fn = "get_element_state"
    ELSE req[r].invoked # <<>>

\* C16: every custom action handler supplied in the startup options is in the
\* handler registry by the time the session is Ready, and a send-command that
\* names its command is resolved to it.
C16_OptionHandlersRegistered ==
    /\ lifecycle = "Ready" =>
          \A n \in DOMAIN options.custom_action_handlers : Registered(n)
    /\ \A r \in DOMAIN req :
          (/\ SendInReady(r)
           /\ Parsed(r).ok
           /\ Parsed(r).command_name \in DOMAIN options.custom_action_handlers)
              => HandlerPathTaken(r)

\* The command name as the client wrote it: the first group of the match
WrittenName(r) == ReMatch(Strip(req[r].cmd)).g1

\* C17: handler lookup ignores letter case: when a handler is registered under
\* a name N in any letter case and the command name equals N ignoring case,
\* the dispatcher resolves the command to that handler.
C17_LookupIgnoresCase ==
    \A r \in DOMAIN req :
        (/\ SendInReady(r)
         /\ Parsed(r).ok
         /\ \E n \in DOMAIN custom_action_handler_map : Lower(n) = Lower(WrittenName(r)))
            => HandlerPathTaken(r)

\* C18: every envelope send-command returns with success = false carries a
\* message and an error_type, also when it comes from a custom handler or
\* from the driver and is passed through.
C18_FailureEnvelopesFilled ==
    \A r \in DOMAIN req :
        (/\ req[r].op = "send"
         /\ Answered(r)
         /\ req[r].resp.kind = "envelope"
         /\ ~req[r].resp.success)
            => /\ req[r].resp.message # NoMessage
               /\ req[r].resp.error_type # NoneVal

\* The envelope the caller received has the four fields of this ActionResult
SameAsResult(resp, result) ==
    /\ resp.kind = "envelope"
    /\ resp.success = result.success
    /\ resp.message = result.message
    /\ resp.data = result.data
    /\ resp.error_type = result.error_type

\* C19: for a built-in command that reached the driver, the envelope returned
\* equals the driver's ActionResult in success, message, data and error_type;
\* a select of a value that is not among the options returns the driver's
\* OptionNotFound failure unchanged.
C19_DriverResultUnchanged ==
    \A r \in DOMAIN req :
        (/\ req[r].op = "send"
         /\ Answered(r)
         /\ DriverActionCalls(req[r]) # {}
         /\ ~req[r].last.raised)
            => SameAsResult(req[r].resp, req[r].last.result)

\* C19 witness: "select #a fr" reached select_option, the driver answered
\* OptionNotFound and the caller received that failure.
C19_Witness ==
    \E r \in DOMAIN req :
        /\ SendInReady(r) /\ Answered(r)
        /\ req[r].cmd = Cmd_select_a_fr
        /\ req[r].calls = <<CallRec("select_option", Id_a, <<"f","r">>)>>
        /\ req[r].last.result.error_type = "OptionNotFound"
        /\ IsFailure(req[r].resp, "OptionNotFound")

\* C20: when a custom handler returns an ActionResult without raising, the
\* envelope returned equals it in success, message, data and error_type.
C20_HandlerResultVerbatim ==
    \A r \in DOMAIN req :
        (/\ req[r].op = "send"
         /\ Answered(r)
         /\ req[r].invoked # <<>>
         /\ ~req[r].last.raised)
            => SameAsResult(req[r].resp, req[r].last.result)

\* C20 witness: the handler returned a failure that carries only a message,
\* and the caller received exactly that.
C20_Witness ==
    \E r \in DOMAIN req :
        /\ SendInReady(r) /\ Answered(r)
        /\ req[r].invoked # <<>>
        /\ ~req[r].last.raised
        /\ ~req[r].last.result.success
        /\ req[r].last.result.error_type = NoneVal
        /\ req[r].resp.kind = "envelope"
        /\ req[r].resp.error_type = NoneVal

S_navigate == <<"n","a","v","i","g","a","t","e">>

\* C21: in a Ready session, a navigate command with no registered handler is
\* not answered InvalidInput as an unrecognized command, whether or not it
\* carries an element id.
C21_NavigateNotRejected ==
    \A r \in DOMAIN req :
        (/\ SendInReady(r)
         /\ Answered(r)
         /\ Parsed(r).ok
         /\ Parsed(r).command_name = S_navigate
         /\ ~Registered(S_navigate))
            => ~(/\ IsFailure(req[r].resp, "InvalidInput")
                 /\ Contains(req[r].resp.message,
                       L("\" is not a recognized core command and no custom handler is registered for it.")))

\* The calls of select_radio_button a request made
RadioCalls(rq) == {i \in 1..Len(rq.calls) : rq.calls[i].fn = "select_radio_button"}

\* C22: in a Ready session, a choose command with an element id and no
\* registered handler makes exactly one driver call, select_radio_button on
\* that element, whose value is the first argument when there is one and the
\* element id itself when the argument list is empty.
C22_ChooseValue ==
    \A r \in DOMAIN req :
        (/\ SendInReady(r)
         /\ Parsed(r).ok
         /\ Parsed(r).command_name = S_choose
         /\ ~Registered(S_choose)
         /\ Parsed(r).has_id)
            => /\ Len(req[r].calls) = 1
               /\ req[r].calls[1].fn = "select_radio_button"
               /\ req[r].calls[1].id = Parsed(r).element_id
               /\ req[r].calls[1].arg =
                      IF Parsed(r).command_args # <<>>
                      THEN Parsed(r).command_args[1]
                      ELSE Parsed(r).element_id

\* C22 witness: "choose #a", with no argument, called select_radio_button
\* with the element id as the value and was answered.
C22_Witness ==
    \E r \in DOMAIN req :
        /\ SendInReady(r) /\ Answered(r)
        /\ req[r].cmd = Cmd_choose_a
        /\ ~Registered(S_choose)
        /\ RadioCalls(req[r]) = {1}
        /\ req[r].calls[1].arg = Id_a

\* t occurs in s as a contiguous run of characters
IsSubstring(t, s) ==
    \E i \in 0..(Len(s) - Len(t)) : SubSeq(s, i + 1, i + Len(t)) = t

\* The words written in s: its maximal runs of non-whitespace characters
Words(s) ==
    {SubSeq(s, i, j) : <<i, j>> \in
        {ij \in (1..Len(s)) \X (1..Len(s)) :
            /\ ij[1] <= ij[2]
            /\ \A k \in ij[1]..ij[2] : s[k] \notin WS
            /\ (ij[1] = 1 \/ s[ij[1] - 1] \in WS)
            /\ (ij[2] = Len(s) \/ s[ij[2] + 1] \in WS)}}

\* The argument a is written in s as it stands: as a word of its own, or
\* between the enclosing quotes of a quoted argument
WrittenVerbatim(a, s) ==
    a \in Words(s) \/ IsSubstring(<<QUOTE>> \o a \o <<QUOTE>>, s)

\* C23: in a Ready session, the parsed command name is the written name in
\* lower case and it is the lower-case name that is looked up and dispatched;
\* the element id and every argument are written in the command string
\* exactly as parsed (apart from the enclosing quotes of a quoted argument),
\* and they are what the driver call or the handler receives.
C23_NameLoweredRestVerbatim ==
    \A r \in DOMAIN req :
        (SendInReady(r) /\ Parsed(r).ok)
            => LET p  == Parsed(r)
                   rq == req[r]
               IN  /\ p.command_name = Lower(Take(Strip(rq.cmd), Len(p.command_name)))
                   /\ Registered(p.command_name) => HandlerPathTaken(r)
                   /\ (~Registered(p.command_name) /\ p.command_name = S_type
                          /\ p.has_id /\ p.command_args # <<>>)
                         => (rq.calls # <<>> /\ rq.calls[1].fn = "type_text")
                   /\ p.has_id => <<"#">> \o p.element_id \in Words(rq.cmd)
                   /\ \A i \in 1..Len(p.command_args) :
                         WrittenVerbatim(p.command_args[i], rq.cmd)
                   /\ \A i \in 1..Len(rq.calls) :
                         /\ rq.calls[i].id = p.element_id
                         /\ rq.calls[i].fn = "type_text" => rq.calls[i].arg = p.command_args[1]
                   /\ \A i \in 1..Len(rq.invoked) :
                         rq.invoked[i].command_args = p.command_args

\* The text after the command name and the optional element id (line 410)
RemainingArgs(r) == Strip(ReMatch(Strip(req[r].cmd)).g3)

\* The number of quote characters among the first n characters of s
RECURSIVE QuotesBefore(_, _)
QuotesBefore(s, n) ==
    IF n = 0 THEN 0
    ELSE QuotesBefore(s, n - 1) + (IF s[n] = QUOTE THEN 1 ELSE 0)

\* The double-quoted runs of s, quotes pairing up from left to right: <<i, j>>
\* with the opening quote at i and the closing quote at j
QuotedRuns(s) ==
    {ij \in (1..Len(s)) \X (1..Len(s)) :
        /\ ij[1] < ij[2]
        /\ s[ij[1]] = QUOTE /\ s[ij[2]] = QUOTE
        /\ \A k \in (ij[1] + 1)..(ij[2] - 1) : s[k] # QUOTE
        /\ QuotesBefore(s, ij[1] - 1) % 2 = 0}

\* The maximal runs of non-whitespace of s that hold no quote and lie
\* outside every quoted run
PlainWords(s) ==
    {ij \in (1..Len(s)) \X (1..Len(s)) :
        /\ ij[1] <= ij[2]
        /\ \A k \in ij[1]..ij[2] : s[k] \notin WS \cup {QUOTE}
        /\ (ij[1] = 1 \/ s[ij[1] - 1] \in WS)
        /\ (ij[2] = Len(s) \/ s[ij[2] + 1] \in WS)
        /\ QuotesBefore(s, ij[1]) % 2 = 0}

\* C24: in a Ready session, for a type command with an element id, every
\* double-quoted run of the text after the element id (with at least one
\* character between its quotes) is one of the parsed arguments, without its
\* quotes and with its whitespace, and so is every maximal run of
\* non-whitespace outside quotes.
C24_ArgumentsTokenized ==
    \A r \in DOMAIN req :
        (/\ SendInReady(r)
         /\ Parsed(r).ok
         /\ Parsed(r).command_name = S_type
         /\ Parsed(r).has_id)
            => LET args == Parsed(r).command_args
                   text == RemainingArgs(r)
                   IsArg(a) == \E i \in 1..Len(args) : args[i] = a
               IN  /\ \A ij \in QuotedRuns(text) :
                         ij[2] > ij[1] + 1 => IsArg(SubSeq(text, ij[1] + 1, ij[2] - 1))
                   /\ \A ij \in PlainWords(text) : IsArg(SubSeq(text, ij[1], ij[2]))

\* The command string is written as a name without "#", then whitespace
\* (possibly none), then a # token: the record of what is written, with
\* hashFollows FALSE when the text after the name is anything else and
\* spaced TRUE when there is whitespace after the name
WrittenHead(cmd) ==
    LET cs    == Strip(cmd)
        n     == RunOutside(cs, WS \cup {"#"})
        rest  == Drop(cs, n)
        w     == RunInside(rest, WS)
        after == Drop(rest, w + 1)
    IN  [name        |-> Take(cs, n),
         spaced      |-> w >= 1,
         hashFollows |-> /\ n >= 1
                         /\ Len(rest) >= w + 2
                         /\ rest[w + 1] = "#"
                         /\ rest[w + 2] \notin WS,
         id          |-> Take(after, RunOutside(after, WS))]

\* C25: in a Ready session, when a # token follows the command name with
\* only whitespace, possibly none, between them, the parser takes the text
\* after # as the element id and the text before as the command name; and
\* an element id is only ever taken from a # token in that place, never from
\* one that comes after another argument.
C25_IdFollowsName ==
    \A r \in DOMAIN req :
        (SendInReady(r) /\ Parsed(r).ok)
            => LET h == WrittenHead(req[r].cmd)
               IN  /\ h.hashFollows
                         => /\ Parsed(r).has_id
                            /\ Parsed(r).element_id = h.id
                            /\ Parsed(r).command_name = Lower(h.name)
                   /\ Parsed(r).has_id => h.hashFollows

\* C25, amended: in a Ready session, when a # token follows the command name
\* after at least one whitespace character, the parser takes the text after #
\* as the element id and the text before as the command name; and an element
\* id is only ever taken from a # token that follows the name, never from one
\* that comes after another argument.
C25_IdAfterWhitespace ==
    \A r \in DOMAIN req :
        (SendInReady(r) /\ Parsed(r).ok)
            => LET h == WrittenHead(req[r].cmd)
               IN  /\ (h.hashFollows /\ h.spaced)
                         => /\ Parsed(r).has_id
                            /\ Parsed(r).element_id = h.id
                            /\ Parsed(r).command_name = Lower(h.name)
                   /\ Parsed(r).has_id => h.hashFollows

\* C25 witness: "Type #B B" was dispatched with the element id B taken from
\* the # token that follows the name after one space
C25_Witness ==
    \E r \in DOMAIN req :
        /\ SendInReady(r) /\ Answered(r)
        /\ req[r].cmd = S_Type \o <<" ","#","B"," ","B">>
        /\ WrittenHead(req[r].cmd).hashFollows
        /\ Parsed(r).has_id
        /\ Parsed(r).element_id = <<"B">>
        /\ Parsed(r).command_args = << <<"B">> >>

\* The command string holds nothing but whitespace
IsBlank(cmd) == \A i \in 1..Len(cmd) : cmd[i] \in WS

\* C26: in a Ready session, an empty or whitespace-only command string is
\* answered at once with a failure envelope of error_type InvalidInput;
\* nothing was parsed from it, no handler was invoked and no call was made
\* into the driver.
C26_BlankCommandRejected ==
    \A r \in DOMAIN req :
        (SendInReady(r) /\ IsBlank(req[r].cmd))
            => /\ Answered(r)
               /\ IsFailure(req[r].resp, "InvalidInput")
               /\ req[r].resp.data = NoData
               /\ Parsed(r) = NoParse
               /\ req[r].invoked = <<>>
               /\ req[r].calls = <<>>

\* C26 witness: the command string of two spaces was rejected
C26_Witness ==
    \E r \in DOMAIN req :
        /\ SendInReady(r) /\ Answered(r)
        /\ req[r].cmd = <<" ", " ">>
        /\ IsFailure(req[r].resp, "InvalidInput")

\* get_current_screen_actions was answered in a Ready session with the
\* descriptors of the elements the extractor returned
ActionsAssembled(r) ==
    /\ req[r].op = "actions" /\ req[r].arrived = "Ready"
    /\ Answered(r)
    /\ req[r].resp.success

\* The extractor's element list a request assembled its reply from
ElementsRead(r) == req[r].last.result.data

\* The descriptor d was derived from the element el
DescriptorOf(d, el) ==
    /\ d.id = el.id
    /\ d.elementType = el.elementType
    /\ d.isChecked = el.isChecked
    /\ d.radioGroup = el.radioGroup
    /\ d.options = el.options

\* C27: the descriptor list of a reply follows the order of the extractor's
\* element list: the descriptors can be assigned to the elements they were
\* derived from so that the assignment never steps back in the element list,
\* which puts every descriptor of an element before every descriptor of a
\* later element.
C27_DescriptorsInElementOrder ==
    \A r \in DOMAIN req :
        ActionsAssembled(r)
            => LET els  == ElementsRead(r)
                   acts == req[r].resp.actions
               IN  \E f \in [1..Len(acts) -> 1..Len(els)] :
                       /\ \A i \in 1..Len(acts) : DescriptorOf(acts[i], els[f[i]])
                       /\ \A i \in 1..Len(acts) : \A j \in 1..Len(acts) :
                              i < j => f[i] <= f[j]

\* C27 witness: for the list of a textarea B followed by a select a with an
\* option, the reply holds the two descriptors of B and then the two of a.
C27_Witness ==
    \E r \in DOMAIN req :
        /\ ActionsAssembled(r)
        /\ ElementsRead(r) = <<Element(Id_B, T_textarea, FALSE, <<>>, <<>>),
                               Element(Id_a, T_select, FALSE, <<>>, <<AnOption>>)>>
        /\ Len(req[r].resp.actions) = 4
        /\ req[r].resp.actions[2].id = Id_B
        /\ req[r].resp.actions[3].id = Id_a

\* The number of positions of the sequence q whose entry satisfies Test
CountIn(q, Test(_)) == Cardinality({i \in 1..Len(q) : Test(q[i])})

\* C28: in a reply of get_current_screen_actions, every checkbox element has
\* exactly one check-or-uncheck descriptor: for each id, the descriptors
\* hinting "uncheck #<id>" are as many as the checked checkboxes of that id
\* in the extractor's list, and those hinting "check #<id>" as many as the
\* unchecked ones; each such descriptor is derived from a checkbox.
C28_CheckboxHintFollowsState ==
    \A r \in DOMAIN req :
        ActionsAssembled(r)
            => LET els  == ElementsRead(r)
                   acts == req[r].resp.actions
               IN  /\ \A i \in 1..Len(els) :
                         LET id == els[i].id
                             IsChecked(e)   == e.elementType = T_input_checkbox /\ e.id = id /\ e.isChecked
                             IsUnchecked(e) == e.elementType = T_input_checkbox /\ e.id = id /\ ~e.isChecked
                             HintsUncheck(d) == d.commandHint = H_uncheck \o id
                             HintsCheck(d)   == d.commandHint = H_check \o id
                         IN  /\ CountIn(acts, HintsUncheck) = CountIn(els, IsChecked)
                             /\ CountIn(acts, HintsCheck) = CountIn(els, IsUnchecked)
                   /\ \A j \in 1..Len(acts) :
                         (\/ StartsWith(acts[j].commandHint, H_check)
                          \/ StartsWith(acts[j].commandHint, H_uncheck))
                            => acts[j].elementType = T_input_checkbox

\* C28 witness: for a checked checkbox a and an unchecked checkbox B the reply
\* is "uncheck #a", then "check #B"
C28_Witness ==
    \E r \in DOMAIN req :
        /\ ActionsAssembled(r)
        /\ ElementsRead(r) = <<Element(Id_a, T_input_checkbox, TRUE, <<>>, <<>>),
                               Element(Id_B, T_input_checkbox, FALSE, <<>>, <<>>)>>
        /\ Len(req[r].resp.actions) = 2
        /\ req[r].resp.actions[1].commandHint = H_uncheck \o Id_a
        /\ req[r].resp.actions[2].commandHint = H_check \o Id_B

\* The number of "click #<id>" descriptors the reply holds for elements of
\* the kind t and the id
ClickDescriptors(acts, id, t) ==
    Cardinality({j \in 1..Len(acts) :
        /\ acts[j].id = id /\ acts[j].elementType = t
        /\ acts[j].commandHint = H_click \o id})

\* The number of elements of the kind t and the id in the list
ElementsOfKind(els, id, t) ==
    Cardinality({i \in 1..Len(els) : els[i].id = id /\ els[i].elementType = t})

\* C29: in a reply of get_current_screen_actions, every element whose kind is
\* button, submit, link, another kind that is no input (select, div) or a
\* non-text input kind (file, reset, range) has exactly one "click #<id>"
\* descriptor, and a text input or a textarea has none.
C29_ClickExactlyForNonText ==
    \A r \in DOMAIN req :
        ActionsAssembled(r)
            => LET els  == ElementsRead(r)
                   acts == req[r].resp.actions
               IN  \A i \in 1..Len(els) :
                     LET id == els[i].id
                         t  == els[i].elementType
                     IN  /\ t \in {T_button, T_input_submit, T_a, T_select, T_div,
                                    T_input_file, T_input_reset, T_input_range}
                               => ClickDescriptors(acts, id, t) = ElementsOfKind(els, id, t)
                         /\ t \in {T_input_text, T_textarea}
                               => ClickDescriptors(acts, id, t) = 0

\* The number of type descriptors the reply holds for elements of the kind t
\* and the id
TypeDescriptors(acts, id, t) ==
    Cardinality({j \in 1..Len(acts) :
        /\ acts[j].id = id /\ acts[j].elementType = t
        /\ acts[j].commandHint = H_type \o id \o H_type_arg})

\* The thirteen input kinds the enumeration names that are also in the list of
\* lines 304-308, without the input- prefix
NamedNonTextKinds ==
    { <<"b","u","t","t","o","n">>,
      <<"s","u","b","m","i","t">>,
      <<"c","h","e","c","k","b","o","x">>,
      <<"r","a","d","i","o">>,
      <<"f","i","l","e">>,
      <<"r","e","s","e","t">>,
      <<"i","m","a","g","e">>,
      <<"c","o","l","o","r">>,
      <<"r","a","n","g","e">>,
      <<"d","a","t","e">>,
      <<"m","o","n","t","h">>,
      <<"w","e","e","k">>,
      <<"t","i","m","e">> }

\* The enumeration as written, ending in "datetime"
EnumeratedAsWritten ==
    {T_input_prefix \o n : n \in NamedNonTextKinds \cup {<<"d","a","t","e","t","i","m","e">>}}

\* The enumeration ending in "datetime-local"
EnumeratedWithLocal ==
    {T_input_prefix \o n : n \in NamedNonTextKinds} \cup {T_input_datetime_local}

\* In a reply, exactly the textareas and the input kinds outside the
\* enumeration have a type descriptor, one each
TypeExactlyOutside(enumerated) ==
    \A r \in DOMAIN req :
        ActionsAssembled(r)
            => LET els  == ElementsRead(r)
                   acts == req[r].resp.actions
               IN  /\ \A i \in 1..Len(els) :
                         LET id == els[i].id
                             k  == els[i].elementType
                         IN  TypeDescriptors(acts, id, k) =
                                IF \/ k = T_textarea
                                   \/ (StartsWith(k, T_input_prefix) /\ k \notin enumerated)
                                THEN ElementsOfKind(els, id, k)
                                ELSE 0
                   /\ \A j \in 1..Len(acts) :
                         StartsWith(acts[j].commandHint, H_type)
                            => acts[j].elementType \notin enumerated

\* C30: in a reply of get_current_screen_actions, an element has a
\* type #<id> "<text_to_type>" descriptor exactly when its kind is textarea or
\* an input kind outside the enumeration button, submit, checkbox, radio,
\* file, reset, image, color, range, date, month, week, time, datetime; no
\* enumerated kind has one.
C30_TypeExactlyForText == TypeExactlyOutside(EnumeratedAsWritten)

\* C30, amended: the same with datetime-local in the place of datetime.
C30_TypeOutsideListWithLocal == TypeExactlyOutside(EnumeratedWithLocal)

\* C30 witness: for an input-datetime a followed by an input-datetime-local B
\* the reply is the one descriptor type #a "<text_to_type>"
C30_Witness ==
    \E r \in DOMAIN req :
        /\ ActionsAssembled(r)
        /\ ElementsRead(r) = <<Element(Id_a, T_input_datetime, FALSE, <<>>, <<>>),
                               Element(Id_B, T_input_datetime_local, FALSE, <<>>, <<>>)>>
        /\ Len(req[r].resp.actions) = 1
        /\ req[r].resp.actions[1].commandHint = H_type \o Id_a \o H_type_arg

\* C31: in a reply of get_current_screen_actions, every radio element has
\* exactly one descriptor: for each id and group, the descriptors of radio
\* elements with that id and group are as many as those elements, and each
\* hints "choose #<id> in_group <group>" when the group is named and exactly
\* "choose #<id>" when it is not; no other element has a choose hint.
C31_RadioHintNamesGroup ==
    \A r \in DOMAIN req :
        ActionsAssembled(r)
            => LET els  == ElementsRead(r)
                   acts == req[r].resp.actions
               IN  /\ \A i \in 1..Len(els) :
                         els[i].elementType = T_input_radio
                            => LET SameRadio(x) == /\ x.elementType = T_input_radio
                                                   /\ x.id = els[i].id
                                                   /\ x.radioGroup = els[i].radioGroup
                               IN  CountIn(acts, SameRadio) = CountIn(els, SameRadio)
                   /\ \A j \in 1..Len(acts) :
                         acts[j].elementType = T_input_radio
                            => acts[j].commandHint =
                                  IF acts[j].radioGroup # <<>>
                                  THEN <<"c","h","o","o","s","e"," ","#">> \o acts[j].id
                                       \o <<" ","i","n","_","g","r","o","u","p"," ">>
                                       \o acts[j].radioGroup
                                  ELSE <<"c","h","o","o","s","e"," ","#">> \o acts[j].id
                   /\ \A j \in 1..Len(acts) :
                         StartsWith(acts[j].commandHint, H_choose)
                            => acts[j].elementType = T_input_radio

\* C31 witness: for a radio a of group g followed by a radio B without a
\* group the reply is "choose #a in_group g", then "choose #B"
C31_Witness ==
    \E r \in DOMAIN req :
        /\ ActionsAssembled(r)
        /\ ElementsRead(r) = <<Element(Id_a, T_input_radio, FALSE, <<"g">>, <<>>),
                               Element(Id_B, T_input_radio, FALSE, <<>>, <<>>)>>
        /\ Len(req[r].resp.actions) = 2
        /\ req[r].resp.actions[1].commandHint = H_choose \o Id_a \o H_in_group \o <<"g">>
        /\ req[r].resp.actions[2].commandHint = H_choose \o Id_B

\* C32: two graceful_shutdown calls in a row, also when the second close of
\* the driver raises because the session is already gone, let no error reach
\* the caller and leave the session in state Closed
C32_RepeatedShutdownIsQuiet ==
    /\ shutdown # "raised"
    /\ (shutdown_requests >= 2 /\ shutdown = "idle") => lifecycle = "Closed"

\* the second graceful_shutdown has returned, after its close found the page
\* already gone
C32_Witness ==
    /\ shutdown_requests = 2
    /\ shutdown = "idle"
    /\ close_calls >= 2
    /\ page # "open"
    /\ lifecycle = "Closed"

SnapshotSucceeded(r) ==
    /\ req[r].op = "data"
    /\ req[r].pc = "done"
    /\ req[r].resp.kind = "snapshot"
    /\ req[r].resp.success
    /\ req[r].kept.success
    /\ ~req[r].last.raised /\ req[r].last.result.success

\* C34: a successful get-screen-data snapshot is a consistent read of one page
\* state: its structured data and its interactive elements were read from the
\* same state of the page, also when a send-command request changes the page
\* between the two extractor reads
C34_SnapshotReadsOnePageState ==
    \A r \in DOMAIN req : SnapshotSucceeded(r) => ~req[r].moved

\* The driver action a hint names by its first word, "" for the hints of the
\* type and select rules
HintAction(hint) ==
    IF StartsWith(hint, H_click) THEN "click"
    ELSE IF StartsWith(hint, H_check) THEN "check_element"
    ELSE IF StartsWith(hint, H_uncheck) THEN "uncheck_element"
    ELSE IF StartsWith(hint, H_choose) THEN "select_radio_button"
    ELSE ""

\* What sending the hint of an element is to call: the action the hint names,
\* on the element, and for a radio button with the element id as the value
HintCall(hint, el) ==
    CallRec(HintAction(hint), el.id,
            IF HintAction(hint) = "select_radio_button" THEN el.id ELSE <<>>)

\* C35: command hints are ready to send: for every click, check, uncheck and
\* choose descriptor (element id without whitespace), sending its commandHint
\* verbatim through send-command with no custom handlers calls the driver
\* action of the same name on that element id, and a choose hint passes the
\* element id as the value of the radio selection, also with the in_group
\* suffix
C35_HintsReadyToSend ==
    \A r \in DOMAIN req : \A el \in HintElements :
        (/\ req[r].op = "send"
         /\ req[r].cmd \in HintsOf(el)
         /\ HintAction(req[r].cmd) # "")
            => req[r].calls = <<HintCall(req[r].cmd, el)>>


\* C36: whenever a custom handler is invoked for a command that carried an
\* element id, the handler receives that element's current state as its target
\* element: the target is absent only when the command had no element id
C36_HandlerReceivesElementState ==
    \A r \in DOMAIN req :
        (req[r].invoked # <<>> /\ req[r].parsed.has_id)
            => req[r].invoked[1].element = ElementData(req[r].parsed.element_id)

\* C37: get-screen-actions answers success=false only when the extractor
\* failed or the session or page is unavailable (then the extractor is never
\* called): when the extractor succeeds on a page without interactive
\* elements the reply is success=true with an empty action list
C37_EmptyPageIsNotAFailure ==
    \A r \in DOMAIN req :
        (req[r].op = "actions" /\ req[r].pc = "done" /\ ~req[r].resp.success)
            => \/ req[r].calls = <<>>
               \/ req[r].last.raised
               \/ ~req[r].last.result.success

C39_IllFormedVersionLeftUnset ==
    (cli.pc = "passed" /\ cli.server_version.given) => IsXYZ(cli.server_version.text)

====
